---------------------------- MODULE Spec2Model ----------------------------
(***************************************************************************)
(* Order lifecycle engine of the Nasta marketplace backend: the food       *)
(* delivery order aggregate (deliveryStatus state machine, driver          *)
(* assignment, customer cancellation), the delivery drivers' availability  *)
(* and the payment handlers that write the order.                          *)
(*                                                                         *)
(* The persistent state is the four MongoDB collections the handlers       *)
(* touch (FoodDelivery, DeliveryDriver, FoodDeliveryPayment, FoodVenue).   *)
(* Handlers                                                                *)
(* that run inside a mongoose session/transaction either commit all their  *)
(* writes or none (abortTransaction in the catch block).                   *)
(***************************************************************************)
EXTENDS Integers, Sequences, FiniteSets, TLC

(***************************************************************************)
(* Identities.  "o0" is an id that matches no order (findById returns null *)
(* for it).                                                                *)
(***************************************************************************)
Orders == {"o1", "o2"}
DriverIds == {"d1", "d2"}
NoDriver == "none"
Venues == {"v1", "v2"}
StaffUsers == {"s1", "s2"}
CustomerUsers == {"c1", "c2"}
AdminUsers == {"admin"}
Users == StaffUsers \cup CustomerUsers \cup AdminUsers
\* Who may send a status request: business owners, drivers, and a user with
\* neither role.
Actors == StaffUsers \cup DriverIds \cup {"c1"}

\* BusinessOwner -> Service -> FoodVenue chain of a business_owner user.
StaffVenue == [s \in StaffUsers |-> IF s = "s1" THEN "v1" ELSE "v2"]
\* venue and customer._id an order was created with.
OrderVenue == [o \in Orders |-> IF o = "o2" THEN "v2" ELSE "v1"]
OrderCustomer == [o \in Orders |-> IF o = "o2" THEN "c2" ELSE "c1"]

\* Longest trackingUpdates array the model explores.
MaxTrack == 3

\* Most refunds of one payment the model explores.
MaxRefunds == 2

VARIABLES
  orders,    \* FoodDelivery collection: order id -> document
  drivers,   \* DeliveryDriver collection: driver id -> document
  payments,  \* FoodDeliveryPayment collection, keyed by its unique order reference
  txn,       \* mongoose transactions: worker -> its request, open or ended
  venues     \* FoodVenue collection: venue id -> document

vars == <<orders, drivers, payments, txn, venues>>

----------------------------------------------------------------------------
(* Schema enumerations *)

DeliveryStatuses ==
  {"pending", "preparing", "ready", "dispatched", "in_transit", "delivered", "failed"}

OrderPaymentStatuses == {"pending", "paid", "failed", "refunded"}

\* updateOrderStatus: const validStatuses
validStatuses == {"preparing", "ready", "dispatched", "in_transit", "delivered", "failed"}

\* Mutation: a delivered order may still be marked failed.
validTransitions_DeliveredFails(from) ==
  CASE from = "pending" -> {"preparing", "failed"}
    [] from = "preparing" -> {"ready", "failed"}
    [] from = "ready" -> {"dispatched", "failed"}
    [] from = "dispatched" -> {"in_transit", "failed"}
    [] from = "in_transit" -> {"delivered", "failed"}
    [] from = "delivered" -> {"failed"}
    [] OTHER -> {}

\* updateOrderStatus: const validTransitions
validTransitions(from) ==
  CASE from = "pending" -> {"preparing", "failed"}
    [] from = "preparing" -> {"ready", "failed"}
    [] from = "ready" -> {"dispatched", "failed"}
    [] from = "dispatched" -> {"in_transit", "failed"}
    [] from = "in_transit" -> {"delivered", "failed"}
    [] from = "delivered" -> {}
    [] from = "failed" -> {}
    [] OTHER -> {}

\* Mutation: a driver may not move a ready order to dispatched.
validDriverTransitions_NoDispatch(from) ==
  CASE from = "ready" -> {"failed"}
    [] from = "dispatched" -> {"in_transit", "failed"}
    [] from = "in_transit" -> {"delivered", "failed"}
    [] OTHER -> {}

\* updateOrderStatus: const validDriverTransitions (undefined for the other statuses)
validDriverTransitions(from) ==
  CASE from = "ready" -> {"dispatched", "failed"}
    [] from = "dispatched" -> {"in_transit", "failed"}
    [] from = "in_transit" -> {"delivered", "failed"}
    [] OTHER -> {}

\* Mutation: the business owner branch lets every request through.
BusinessOwnerMay_Any(from, status) == TRUE

\* updateOrderStatus: the condition of the business owner branch
BusinessOwnerMay(from, status) ==
  \/ from = "pending" /\ status = "preparing"
  \/ from = "preparing" /\ status = "ready"
  \/ status = "failed"

\* updateOrderStatus: authSource from req.user.role / req.driver
AuthSource(actor) ==
  IF actor \in StaffUsers THEN "business_owner"
  ELSE IF actor \in DriverIds THEN "driver"
  ELSE "none"

----------------------------------------------------------------------------
(* Numbers.  Money is counted in thousandths of the currency unit, so that *)
(* a price such as 3.333 can be told from its rounding to two decimals;    *)
(* distances in hundredths of a kilometre; positions in thousandths of a   *)
(* degree of latitude on the venue's meridian; surge multipliers in        *)
(* tenths; the time of day in minutes, which orders zero-padded "HH:MM"    *)
(* strings as string comparison does.  Binary floating point error is not  *)
(* modelled.                                                               *)

\* parseFloat((num/den).toFixed(2)) of a non-negative amount num/den
ToFixed2(num, den) == ((num + 5 * den) \div (10 * den)) * 10

\* calculateDistance for two points of one meridian: R * c with c the
\* difference of latitude in radians (6371 * pi / 180 = 111.1949 km per
\* degree), rounded to two decimals.
calculateDistance(lat1, lat2) ==
  LET dLat == IF lat2 >= lat1 THEN lat2 - lat1 ELSE lat1 - lat2 IN
  (1111949 * dLat + 50000) \div 100000

\* Mutation: the loops keep the last match instead of breaking at the first.
FirstIndex_Last(matching) ==
  IF matching = {} THEN 0
  ELSE CHOOSE i \in matching : \A j \in matching : i >= j

\* The first of the matching indices, or 0 when there is none (the
\* for ... break loops of calculateDynamicDeliveryFee).
FirstIndex(matching) ==
  IF matching = {} THEN 0
  ELSE CHOOSE i \in matching : \A j \in matching : i <= j

\* calculateDynamicDeliveryFee: the fee record stored as order.deliveryFee
calculateDynamicDeliveryFee(venueConfig, distance, currentTime, subtotal) ==
  LET InRate(rate) == distance >= rate.minDistance /\ distance <= rate.maxDistance
      r == FirstIndex({i \in 1..Len(venueConfig.distanceRates) :
                         InRate(venueConfig.distanceRates[i])})
      \* rate.rate * distance, in 1/100000 of the currency unit
      distanceFee == IF r = 0 THEN 0 ELSE venueConfig.distanceRates[r].rate * distance
      InSurge(surge) == currentTime >= surge.startTime /\ currentTime <= surge.endTime
      g == FirstIndex({i \in 1..Len(venueConfig.surgeMultipliers) :
                         InSurge(venueConfig.surgeMultipliers[i])})
      surgeMultiplier == IF g = 0 THEN 10 ELSE venueConfig.surgeMultipliers[g].multiplier
      smallOrderFee == IF subtotal < venueConfig.smallOrderThreshold
                       THEN venueConfig.smallOrderFee ELSE 0
      \* subtotal * (serviceFeePercentage / 100), in 1/100000 of the unit
      serviceFee == subtotal * venueConfig.serviceFeePercentage
      \* base * surgeMultiplier, in 1/10000 of the unit
      baseFee == venueConfig.base * surgeMultiplier
      \* distanceFee * surgeMultiplier, in 1/1000000 of the unit
      distanceFeeWithSurge == distanceFee * surgeMultiplier
      \* the sum, in 1/1000000 of the unit
      total == baseFee * 100 + distanceFeeWithSurge + smallOrderFee * 1000
                 + serviceFee * 10 + venueConfig.handlingFee * 1000
  IN [base |-> ToFixed2(venueConfig.base, 1),
      distanceFee |-> ToFixed2(distanceFeeWithSurge, 1000),
      surgeFee |-> ToFixed2(baseFee * (surgeMultiplier - 10), 100),
      smallOrderFee |-> ToFixed2(smallOrderFee, 1),
      serviceFee |-> ToFixed2(serviceFee, 100),
      handlingFee |-> ToFixed2(venueConfig.handlingFee, 1),
      zoneFee |-> 0,
      discount |-> 0,
      total |-> ToFixed2(total, 1000)]

----------------------------------------------------------------------------
(* FoodVenue documents, as far as the order handlers read and write them *)

\* venue.deliveryFee, the configuration calculateDynamicDeliveryFee reads
FeeConfig ==
  [base |-> 5000,
   distanceRates |-> <<[minDistance |-> 0, maxDistance |-> 500, rate |-> 1000],
                       [minDistance |-> 500, maxDistance |-> 2000, rate |-> 1500]>>,
   surgeMultipliers |-> <<[startTime |-> 1080, endTime |-> 1260, multiplier |-> 15]>>,
   smallOrderThreshold |-> 15000,
   smallOrderFee |-> 2000,
   serviceFeePercentage |-> 10,
   handlingFee |-> 1000]

\* A venue that takes orders within 10 km.  averageRating is the exact
\* fraction <<sum of ratings, number of ratings>>.
NewVenue ==
  [isAvailable |-> TRUE,
   latitude |-> 0,
   deliveryRadius |-> 1000,
   deliveryFee |-> FeeConfig,
   totalOrders |-> 0,
   averageRating |-> <<0, 0>>,
   ratingCount |-> 0]

----------------------------------------------------------------------------
(* createFoodDeliveryOrder: the request and the document it stores *)

validPaymentMethods ==
  {"credit_card", "debit_card", "paypal", "stripe", "cash_on_delivery", "wallet", "razorpay"}

\* paymentMethod enum of the FoodDelivery schema
SchemaPaymentMethods ==
  {"credit_card", "paypal", "stripe", "razorpay", "esewa", "cash-on-delivery"}

\* Menu item ids found in some venue's menuItems (the menuItemId validator)
MenuItems == {"m1"}

RECURSIVE ItemsSubtotal(_)
\* items.reduce((sum, item) => sum + item.price * item.quantity + optionsCost, 0)
\* for items without options
ItemsSubtotal(items) ==
  IF items = <<>> THEN 0
  ELSE ItemsSubtotal(SubSeq(items, 1, Len(items) - 1))
         + items[Len(items)].price * items[Len(items)].quantity

\* The "Validate items structure" loop: a missing (0) quantity or price is
\* rejected like a missing menuItemId.
ValidItem(item) ==
  /\ item.menuItemId # "absent"
  /\ item.quantity # 0
  /\ item.price # 0
  /\ item.quantity >= 1
  /\ item.price >= 0

\* Mutation: when the geocoder throws, the request's own address is stored.
StoredAddress_RequestFirst(geocoded, requestAddress) ==
  IF geocoded \notin {"throws", "empty"} THEN geocoded
  ELSE IF requestAddress # "absent" THEN requestAddress
  ELSE "Unknown"

\* The address fields stored from the geocoder's answer: "Unknown" when the
\* call threw, the geocoded value when it answered with one, otherwise the
\* request's own deliveryAddress value or "Unknown".
StoredAddress(geocoded, requestAddress) ==
  IF geocoded = "throws" THEN "Unknown"
  ELSE IF geocoded # "empty" THEN geocoded
  ELSE IF requestAddress # "absent" THEN requestAddress
  ELSE "Unknown"

\* The document FoodDelivery.create stores, after the pre-save hook has run
\* calculateTotals on it (items are modified on a new document): the hook
\* replaces subtotal by the unrounded sum, and its totalAmount, the sum of
\* numbers and the deliveryFee sub-document, is NaN, which the Number cast
\* refuses, so that totalAmount keeps the value the handler computed.
CreatedOrder(body, venue, geocoded, currentTime) ==
  LET distance == calculateDistance(venue.latitude, body.coordinates[1])
      subtotal == ItemsSubtotal(body.items)
      tax == ToFixed2(subtotal, 10)
      deliveryFee == calculateDynamicDeliveryFee(venue.deliveryFee, distance,
                                                 currentTime, subtotal)
      totalAmount == ToFixed2(subtotal + deliveryFee.total + tax + body.tip, 1)
  IN [deliveryStatus |-> "pending",
      paymentStatus |-> "pending",
      deliveryDriver |-> NoDriver,
      trackingUpdates |-> <<>>,
      actualDeliveryTime |-> FALSE,
      cancelledBy |-> "none",
      rating |-> 0,
      driverRating |-> 0,
      venueRating |-> 0,
      deliveryAddress |-> StoredAddress(geocoded, body.deliveryAddress),
      coordinates |-> body.coordinates[1],
      subtotal |-> subtotal,
      deliveryFee |-> deliveryFee,
      tax |-> tax,
      tip |-> body.tip,
      discount |-> 0,
      totalAmount |-> totalAmount]

\* A request for two dishes at 12.50, delivered 4.45 km away.  coordinates
\* is the request's array without its longitude, which is the venue's: <<lat>>
\* is well formed, <<>> is an array of the wrong length.
DefaultBody ==
  [venue |-> "v1",
   items |-> <<[menuItemId |-> "m1", quantity |-> 2, price |-> 12500]>>,
   tip |-> 0,
   coordinates |-> <<40>>,
   paymentMethod |-> "stripe",
   deliveryAddress |-> "absent"]

----------------------------------------------------------------------------
(* Documents *)

Exists(o) == o \in DOMAIN orders

\* An order as createFoodDeliveryOrder stores it.
NewOrder == CreatedOrder(DefaultBody, NewVenue, "Main Street", 720)

NewDriver ==
  [isAvailable |-> TRUE, isOnDuty |-> FALSE, completedDeliveries |-> 0,
   averageRating |-> <<0, 0>>, ratingCount |-> 0]

\* A worker that has not served a request yet.
NoTxn ==
  [op |-> "none", order |-> "o0", driver |-> NoDriver, actor |-> "none",
   arg |-> "none", phase |-> "idle", stale |-> FALSE, code |-> "none",
   overlaps |-> {}]

\* The deliveryDriver path validator of the order schema.  It reads the driver
\* without a session, so it sees the committed driver document.
DriverValidator(d) ==
  \/ d = NoDriver
  \/ d \in DOMAIN drivers /\ drivers[d].isAvailable /\ drivers[d].isOnDuty

\* order.save(): document validation before the write.  A modified
\* deliveryDriver is always validated; whether an unmodified one is validated
\* again depends on the mongoose validation mode (validateAll).
SaveValidates(d, modified, validateAll) ==
  (modified \/ validateAll) => DriverValidator(d)


\* Transactions in flight that write order o or driver d lose to a write that
\* commits first (MongoDB write conflict): they are marked stale and abort.
Conflicts(os, ds) ==
  [w \in DOMAIN txn |->
     IF txn[w].phase = "open" /\ (txn[w].order \in os \/ txn[w].driver \in ds)
     THEN [txn[w] EXCEPT !.stale = TRUE]
     ELSE txn[w]]

----------------------------------------------------------------------------
(* updateOrderStatus: PATCH /venue/:id/status and /driver/:id/status *)

\* Mutation: the payment check is missing.
PaymentCompleted_Always(o, status) == TRUE

\* updateOrderStatus: "Check if payment is completed (except for failed status)"
PaymentCompleted(o, status) == status = "failed" \/ orders[o].paymentStatus = "paid"

\* The checks of the handler in source order; "OK" when all pass.
UpdateOrderStatusCheck(o, status, actor) ==
  IF AuthSource(actor) = "none" THEN "InvalidAuthentication"
  ELSE IF status \notin validStatuses THEN "InvalidStatusValue"
  ELSE IF ~Exists(o) THEN "NotFound"
  ELSE IF ~PaymentCompleted(o, status) THEN "PaymentRequired"
  ELSE IF AuthSource(actor) = "business_owner" /\ OrderVenue[o] # StaffVenue[actor]
    THEN "Unauthorized"
  ELSE IF AuthSource(actor) = "business_owner"
          /\ ~BusinessOwnerMay(orders[o].deliveryStatus, status)
    THEN "Forbidden"
  ELSE IF AuthSource(actor) = "driver" /\ orders[o].deliveryDriver # actor
    THEN "Unauthorized"
  ELSE IF AuthSource(actor) = "driver"
          /\ status \notin validDriverTransitions(orders[o].deliveryStatus)
    THEN "Forbidden"
  ELSE IF status \notin validTransitions(orders[o].deliveryStatus)
    THEN "InvalidTransition"
  ELSE "OK"

\* The response: the checks, then the validation order.save() runs.
UpdateOrderStatusCode(o, status, actor, validateAll) ==
  LET pre == UpdateOrderStatusCheck(o, status, actor) IN
  IF pre # "OK" THEN pre
  ELSE IF ~SaveValidates(orders[o].deliveryDriver, FALSE, validateAll) THEN "Failed"
  ELSE "OK"

\* The order document the handler saves.
UpdateOrderStatusOrder(o, status, actor) ==
  [orders[o] EXCEPT
     !.deliveryStatus = status,
     !.trackingUpdates =
        Append(@, [status |-> status,
                   updatedBy |-> IF AuthSource(actor) = "business_owner"
                                 THEN "venue" ELSE "driver"]),
     !.actualDeliveryTime = IF status = "delivered" THEN TRUE ELSE @]

\* "Update driver's current location if provided": the driver collection as
\* the session sees it after the write a driver's request makes once the
\* driver checks have passed, before the final transition check.  location
\* is <<>> when the request sends none, <<latitude>> otherwise (the longitude
\* is the venue's); the location copied into the tracking entry is left out.
UpdateOrderStatusLocation(actor, location) ==
  IF AuthSource(actor) = "driver" /\ location # <<>>
  THEN [drivers EXCEPT ![actor].currentLocation = location[1]]
  ELSE drivers

\* The driver collection after the handler: the location write, and on
\* delivered the assigned driver is freed and credited.
UpdateOrderStatusDrivers(o, status, actor, location) ==
  LET d == orders[o].deliveryDriver
      located == UpdateOrderStatusLocation(actor, location) IN
  IF status = "delivered" /\ d \in DOMAIN drivers
  THEN [located EXCEPT ![d].isAvailable = TRUE,
                       ![d].completedDeliveries = @ + 1]
  ELSE located

\* The driver documents the handler writes.
UpdateOrderStatusWrites(o, status, actor, location) ==
  (IF status = "delivered" THEN {orders[o].deliveryDriver} ELSE {})
    \cup (IF AuthSource(actor) = "driver" /\ location # <<>> THEN {actor} ELSE {})

\* Mutation: the location write is issued without the session, so that it
\* outlives abortTransaction.
UpdateOrderStatusAborted_NoSession(o, status, actor, location) ==
  IF UpdateOrderStatusCheck(o, status, actor) \in {"OK", "InvalidTransition"}
  THEN UpdateOrderStatusLocation(actor, location)
  ELSE drivers

\* The driver collection after a request the handler rejects: every write,
\* the location write included, was made with {session} and is discarded by
\* abortTransaction in the catch block.
UpdateOrderStatusAborted(o, status, actor, location) == drivers

\* A request the handler rejects changes nothing: the transaction is aborted.
UpdateOrderStatus(o, status, actor, validateAll, location) ==
  IF UpdateOrderStatusCode(o, status, actor, validateAll) = "OK"
  THEN /\ Len(orders[o].trackingUpdates) < MaxTrack
       /\ orders' = [orders EXCEPT ![o] = UpdateOrderStatusOrder(o, status, actor)]
       /\ drivers' = UpdateOrderStatusDrivers(o, status, actor, location)
       /\ txn' = Conflicts({o}, UpdateOrderStatusWrites(o, status, actor, location))
       /\ UNCHANGED <<payments, venues>>
  ELSE IF UpdateOrderStatusAborted(o, status, actor, location) = drivers
  THEN UNCHANGED vars
  ELSE /\ drivers' = UpdateOrderStatusAborted(o, status, actor, location)
       /\ UNCHANGED <<orders, payments, txn, venues>>

----------------------------------------------------------------------------
(* assignDriverToOrder: POST /venue/:id/assign-driver *)

AssignDriverToOrderCheck(o, d, actor) ==
  IF actor \notin StaffUsers THEN "Unauthorized"
  ELSE IF ~Exists(o) THEN "NotFound"
  ELSE IF OrderVenue[o] # StaffVenue[actor] THEN "Unauthorized"
  ELSE IF orders[o].deliveryStatus # "ready" THEN "OrderNotReady"
  ELSE IF d \notin DOMAIN drivers THEN "NotFound"
  ELSE IF ~drivers[d].isAvailable \/ ~drivers[d].isOnDuty THEN "DriverUnavailable"
  ELSE "OK"

AssignDriverToOrderCode(o, d, actor) ==
  LET pre == AssignDriverToOrderCheck(o, d, actor) IN
  IF pre # "OK" THEN pre
  ELSE IF ~SaveValidates(d, TRUE, FALSE) THEN "Failed"
  ELSE "OK"

AssignDriverToOrderOrder(o, d) ==
  [orders[o] EXCEPT !.deliveryDriver = d, !.deliveryStatus = "dispatched"]

AssignDriverToOrderDrivers(d) == [drivers EXCEPT ![d].isAvailable = FALSE]

AssignDriverToOrder(o, d, actor) ==
  IF AssignDriverToOrderCode(o, d, actor) = "OK"
  THEN /\ orders' = [orders EXCEPT ![o] = AssignDriverToOrderOrder(o, d)]
       /\ drivers' = AssignDriverToOrderDrivers(d)
       /\ txn' = Conflicts({o}, {d})
       /\ UNCHANGED <<payments, venues>>
  ELSE UNCHANGED vars

----------------------------------------------------------------------------
(* FoodDelivery.methods.assignDriver (foodDelivery.models.js) *)

AssignDriverCode(o, d) ==
  IF orders[o].deliveryStatus # "ready" /\ orders[o].deliveryStatus # "preparing"
    THEN "OrderNotReady"
  ELSE IF d \notin DOMAIN drivers \/ ~drivers[d].isAvailable \/ ~drivers[d].isOnDuty
    THEN "DriverUnavailable"
  ELSE IF ~SaveValidates(d, TRUE, FALSE) THEN "Failed"
  ELSE "OK"

\* The method's second write only increments driver.totalDeliveries, which no
\* guard reads; isAvailable is left as it was.
AssignDriverOrder(o, d) ==
  [orders[o] EXCEPT !.deliveryDriver = d, !.deliveryStatus = "dispatched"]

AssignDriver(o, d) ==
  IF AssignDriverCode(o, d) = "OK"
  THEN /\ orders' = [orders EXCEPT ![o] = AssignDriverOrder(o, d)]
       /\ txn' = Conflicts({o}, {d})
       /\ UNCHANGED <<drivers, payments, venues>>
  ELSE UNCHANGED vars


----------------------------------------------------------------------------
(* cancelOrder (controller) *)

\* order.customer is an embedded sub-document {_id, name, email, phone}; its
\* toString() is the document's inspect() rendering, not the id.
SubdocToString(c) == "{ _id: " \o c \o " }"

\* The isCancellable virtual (isDeleted is never set by these handlers).
isCancellable(o) ==
  /\ orders[o].deliveryStatus # "delivered"
  /\ orders[o].deliveryStatus # "failed"
  /\ orders[o].cancelledBy = "none"

CancelOrderCheck(o, caller) ==
  IF ~Exists(o) THEN "NotFound"
  ELSE IF SubdocToString(OrderCustomer[o]) # caller THEN "Unauthorized"
  ELSE IF ~isCancellable(o) THEN "NotCancellable"
  ELSE "OK"

CancelOrderCode(o, caller, validateAll) ==
  LET pre == CancelOrderCheck(o, caller) IN
  IF pre # "OK" THEN pre
  ELSE IF ~SaveValidates(orders[o].deliveryDriver, FALSE, validateAll) THEN "Failed"
  ELSE "OK"

CancelOrderOrder(o) ==
  [orders[o] EXCEPT !.deliveryStatus = "failed", !.cancelledBy = "customer"]

CancelOrderDrivers(o) ==
  LET d == orders[o].deliveryDriver IN
  IF d \in DOMAIN drivers THEN [drivers EXCEPT ![d].isAvailable = TRUE] ELSE drivers

CancelOrder(o, caller, validateAll) ==
  IF CancelOrderCode(o, caller, validateAll) = "OK"
  THEN /\ orders' = [orders EXCEPT ![o] = CancelOrderOrder(o)]
       /\ drivers' = CancelOrderDrivers(o)
       /\ txn' = Conflicts({o}, {orders[o].deliveryDriver})
       /\ UNCHANGED <<payments, venues>>
  ELSE UNCHANGED vars

----------------------------------------------------------------------------
(* updateDriverStatus (deliveryDriver.controller.js); "absent" = field not sent *)

Flags == {"true", "false", "absent"}

UpdateDriverStatusDriver(d, isAvailable, isOnDuty) ==
  [drivers[d] EXCEPT
     !.isAvailable = IF isAvailable = "absent" THEN @ ELSE isAvailable = "true",
     !.isOnDuty = IF isOnDuty = "absent" THEN @ ELSE isOnDuty = "true"]

\* The write always changes the document: the schema has timestamps, so
\* findByIdAndUpdate sets updatedAt.
UpdateDriverStatus(d, isAvailable, isOnDuty) ==
  IF d \in DOMAIN drivers /\ ~(isAvailable = "absent" /\ isOnDuty = "absent")
  THEN /\ drivers' = [drivers EXCEPT
                        ![d] = UpdateDriverStatusDriver(d, isAvailable, isOnDuty)]
       /\ txn' = Conflicts({}, {d})
       /\ UNCHANGED <<orders, payments, venues>>
  ELSE UNCHANGED vars

----------------------------------------------------------------------------
(* handleFoodDeliveryStripeWebhook: the events that write the order.        *)
(* findOneAndUpdate is a single atomic write outside any transaction; it    *)
(* runs no validators and does not check the document version.             *)

\* The id of the Stripe PaymentIntent whose metadata names order o; the
\* record of a stripe payment carries it as its transactionId.
IntentId(o) ==
  CASE o = "o1" -> "pi_o1"
    [] o = "o2" -> "pi_o2"
    [] OTHER -> "pi_o0"

WebhookEvents ==
  {"payment_intent.succeeded", "payment_intent.payment_failed", "charge.refunded"}

\* The payment status and the order fields each event writes.
WebhookPaymentStatus(event) ==
  CASE event = "payment_intent.succeeded" -> "succeeded"
    [] event = "payment_intent.payment_failed" -> "failed"
    [] event = "charge.refunded" -> "refunded"

WebhookOrder(o, event) ==
  CASE event = "payment_intent.succeeded" ->
         [orders[o] EXCEPT !.paymentStatus = "paid", !.deliveryStatus = "preparing"]
    [] event = "payment_intent.payment_failed" ->
         [orders[o] EXCEPT !.paymentStatus = "failed", !.deliveryStatus = "failed"]
    [] event = "charge.refunded" ->
         [orders[o] EXCEPT !.paymentStatus = "refunded", !.deliveryStatus = "failed"]

HandleFoodDeliveryStripeWebhook(o, event) ==
  /\ event \in WebhookEvents
  /\ payments' = IF o \in DOMAIN payments /\ payments[o].transactionId = IntentId(o)
                 THEN [payments EXCEPT ![o].paymentStatus = WebhookPaymentStatus(event)]
                 ELSE payments
  /\ orders' = IF Exists(o) THEN [orders EXCEPT ![o] = WebhookOrder(o, event)] ELSE orders
  /\ txn' = Conflicts({o}, {})
  /\ UNCHANGED <<drivers, venues>>

----------------------------------------------------------------------------
(* submitOrderRating *)

\* req.user on a route without verifyJwt: POST /customer/:id/rating is
\* mounted with the rate limiter only.
NoUser == "undefined"

\* rating && (rating < 1 || rating > 5) is the rejected case; 0 = not sent
RatingInRange(r) == r = 0 \/ (r >= 1 /\ r <= 5)

\* Request bodies {rating, driverRating, venueRating}
RatingBodies ==
  {[rating |-> 5, driverRating |-> 0, venueRating |-> 0],
   [rating |-> 0, driverRating |-> 4, venueRating |-> 0],
   [rating |-> 4, driverRating |-> 5, venueRating |-> 3],
   [rating |-> 6, driverRating |-> 0, venueRating |-> 0]}

\* Reading req.user._id of an undefined req.user throws a TypeError inside
\* the try block, which the catch block answers with the generic 500.
SubmitOrderRatingCheck(o, user, body) ==
  IF user = NoUser THEN "Failed"
  ELSE IF ~(RatingInRange(body.rating) /\ RatingInRange(body.driverRating)
              /\ RatingInRange(body.venueRating)) THEN "InvalidRating"
  ELSE IF ~Exists(o) THEN "NotFound"
  ELSE IF SubdocToString(OrderCustomer[o]) # user THEN "Unauthorized"
  ELSE IF orders[o].deliveryStatus # "delivered" THEN "NotDelivered"
  ELSE IF orders[o].rating # 0 THEN "AlreadyRated"
  ELSE "OK"

SubmitOrderRatingCode(o, user, body, validateAll) ==
  LET pre == SubmitOrderRatingCheck(o, user, body) IN
  IF pre # "OK" THEN pre
  ELSE IF ~SaveValidates(orders[o].deliveryDriver, FALSE, validateAll) THEN "Failed"
  ELSE "OK"

SubmitOrderRatingOrder(o, body) ==
  [orders[o] EXCEPT
     !.rating = IF body.rating # 0 THEN body.rating ELSE @,
     !.driverRating = IF body.driverRating # 0 THEN body.driverRating ELSE @,
     !.venueRating = IF body.venueRating # 0 THEN body.venueRating ELSE @]

RECURSIVE SumOf(_, _)
\* $group {$avg, $sum: 1} of one rating field over a set of orders
SumOf(S, rate) ==
  IF S = {} THEN 0
  ELSE LET x == CHOOSE x \in S : TRUE IN rate[x] + SumOf(S \ {x}, rate)

\* updateVenueRating over the orders as saved by this request
SubmitOrderRatingVenues(o, body) ==
  LET after == [orders EXCEPT ![o] = SubmitOrderRatingOrder(o, body)]
      v == OrderVenue[o]
      rated == {x \in DOMAIN after : OrderVenue[x] = v /\ after[x].venueRating # 0}
      rate == [x \in rated |-> after[x].venueRating]
  IN IF body.venueRating # 0 /\ v \in DOMAIN venues /\ rated # {}
     THEN [venues EXCEPT ![v].averageRating = <<SumOf(rated, rate), Cardinality(rated)>>,
                         ![v].ratingCount = Cardinality(rated)]
     ELSE venues

\* updateDriverRating over the orders as saved by this request
SubmitOrderRatingDrivers(o, body) ==
  LET after == [orders EXCEPT ![o] = SubmitOrderRatingOrder(o, body)]
      d == orders[o].deliveryDriver
      rated == {x \in DOMAIN after : after[x].deliveryDriver = d /\ after[x].driverRating # 0}
      rate == [x \in rated |-> after[x].driverRating]
  IN IF body.driverRating # 0 /\ d \in DOMAIN drivers /\ rated # {}
     THEN [drivers EXCEPT ![d].averageRating = <<SumOf(rated, rate), Cardinality(rated)>>,
                          ![d].ratingCount = Cardinality(rated)]
     ELSE drivers

SubmitOrderRating(o, user, body, validateAll) ==
  IF SubmitOrderRatingCode(o, user, body, validateAll) = "OK"
  THEN /\ orders' = [orders EXCEPT ![o] = SubmitOrderRatingOrder(o, body)]
       /\ venues' = SubmitOrderRatingVenues(o, body)
       /\ drivers' = SubmitOrderRatingDrivers(o, body)
       /\ txn' = Conflicts({o}, {orders[o].deliveryDriver})
       /\ UNCHANGED payments
  ELSE UNCHANGED vars

----------------------------------------------------------------------------
(* updateDeliveryLocation: PATCH /driver/:id/location *)

\* req.user as the handlers behind router.use("/driver", verifyDriverJwt)
\* find it: the middleware attaches the driver as req.driver and nothing else.
DriverRouteUser(driver) == NoUser

\* The checks of the handler in source order.  It takes the driver's id from
\* req.user._id, which throws when req.user is undefined; the catch block
\* answers 500.  A geocoder that throws or answers nothing is answered 400.
UpdateDeliveryLocationCheck(o, user, coordinates, geocoded) ==
  IF user = NoUser THEN "Failed"
  ELSE IF Len(coordinates) # 1 THEN "InvalidCoordinates"
  ELSE IF ~Exists(o) THEN "NotFound"
  ELSE IF orders[o].deliveryDriver = NoDriver \/ orders[o].deliveryDriver # user
    THEN "Unauthorized"
  ELSE IF geocoded = "throws" THEN "InvalidCoordinates"
  ELSE "OK"

UpdateDeliveryLocationCode(o, user, coordinates, geocoded, validateAll) ==
  LET pre == UpdateDeliveryLocationCheck(o, user, coordinates, geocoded) IN
  IF pre # "OK" THEN pre
  ELSE IF ~SaveValidates(orders[o].deliveryDriver, FALSE, validateAll) THEN "Failed"
  ELSE "OK"

\* The order document the handler saves: the delivery address is replaced by
\* the geocoded one and a tracking entry with the current status is pushed.
UpdateDeliveryLocationOrder(o, coordinates, geocoded) ==
  [orders[o] EXCEPT
     !.deliveryAddress = geocoded,
     !.coordinates = coordinates[1],
     !.trackingUpdates =
        Append(@, [status |-> orders[o].deliveryStatus, updatedBy |-> "driver"])]

UpdateDeliveryLocation(o, driver, coordinates, geocoded, validateAll) ==
  IF UpdateDeliveryLocationCode(o, DriverRouteUser(driver), coordinates, geocoded,
                                validateAll) = "OK"
  THEN /\ Len(orders[o].trackingUpdates) < MaxTrack
       /\ orders' = [orders EXCEPT
                       ![o] = UpdateDeliveryLocationOrder(o, coordinates, geocoded)]
       /\ txn' = Conflicts({o}, {})
       /\ UNCHANGED <<drivers, payments, venues>>
  ELSE UNCHANGED vars

----------------------------------------------------------------------------
(* FoodDelivery.methods.updateStatus: the copy in foodDelivery.models.js    *)
(* and the copy in admin.models.js, each with its own transition table      *)

\* foodDelivery.models.js, updateStatus: const validTransitions
ModelValidTransitions(from) ==
  CASE from = "pending" -> {"preparing", "failed"}
    [] from = "preparing" -> {"ready", "failed"}
    [] from = "ready" -> {"dispatched", "failed"}
    [] from = "dispatched" -> {"in_transit", "failed"}
    [] from = "in_transit" -> {"delivered", "failed"}
    [] OTHER -> {}

\* admin.models.js, updateStatus: const validTransitions
AdminValidTransitions(from) ==
  CASE from = "pending" -> {"preparing"}
    [] from = "preparing" -> {"ready"}
    [] from = "ready" -> {"dispatched"}
    [] from = "dispatched" -> {"in_transit"}
    [] from = "in_transit" -> {"delivered", "failed"}
    [] OTHER -> {}

UpdateStatusCode(o, newStatus, validateAll) ==
  IF newStatus \notin ModelValidTransitions(orders[o].deliveryStatus)
    THEN "InvalidTransition"
  ELSE IF ~SaveValidates(orders[o].deliveryDriver, FALSE, validateAll) THEN "Failed"
  ELSE "OK"

\* The document the method saves; the pre-save hook stamps actualDeliveryTime.
UpdateStatusOrder(o, newStatus, updatedBy) ==
  [orders[o] EXCEPT
     !.deliveryStatus = newStatus,
     !.trackingUpdates = Append(@, [status |-> newStatus, updatedBy |-> updatedBy]),
     !.actualDeliveryTime = IF newStatus = "delivered" THEN TRUE ELSE @]

\* "If driver is assigned and status is in_transit, update driver's
\* location": a write outside any session, made before this.save().
UpdateStatusDrivers(o, newStatus, location) ==
  LET d == orders[o].deliveryDriver IN
  IF newStatus = "in_transit" /\ d \in DOMAIN drivers /\ location # <<>>
  THEN [drivers EXCEPT ![d].currentLocation = location[1]]
  ELSE drivers

UpdateStatus(o, newStatus, updatedBy, location, validateAll) ==
  LET code == UpdateStatusCode(o, newStatus, validateAll) IN
  IF code = "InvalidTransition" THEN UNCHANGED vars
  ELSE /\ Len(orders[o].trackingUpdates) < MaxTrack
       /\ drivers' = UpdateStatusDrivers(o, newStatus, location)
       /\ orders' = IF code = "OK"
                    THEN [orders EXCEPT ![o] = UpdateStatusOrder(o, newStatus, updatedBy)]
                    ELSE orders
       /\ txn' = Conflicts({o}, {})
       /\ UNCHANGED <<payments, venues>>

\* The copy in admin.models.js: its schema has neither the updatedBy field
\* of a tracking entry nor the deliveryDriver validator.
AdminUpdateStatusOrder(o, newStatus) ==
  [orders[o] EXCEPT
     !.deliveryStatus = newStatus,
     !.trackingUpdates = Append(@, [status |-> newStatus, updatedBy |-> "none"]),
     !.actualDeliveryTime = IF newStatus = "delivered" THEN TRUE ELSE @]

AdminUpdateStatus(o, newStatus) ==
  IF newStatus \in AdminValidTransitions(orders[o].deliveryStatus)
  THEN /\ Len(orders[o].trackingUpdates) < MaxTrack
       /\ orders' = [orders EXCEPT ![o] = AdminUpdateStatusOrder(o, newStatus)]
       /\ txn' = Conflicts({o}, {})
       /\ UNCHANGED <<drivers, payments, venues>>
  ELSE UNCHANGED vars

----------------------------------------------------------------------------
(* Nearby-driver queries: $near on the 2dsphere index of currentLocation    *)

\* Metres between two points of one meridian as the 2dsphere index measures
\* them: 111,319 m per degree of latitude.
GeoDistance(lat1, lat2) ==
  LET dLat == IF lat2 >= lat1 THEN lat2 - lat1 ELSE lat1 - lat2 IN
  (111319 * dLat) \div 1000

\* The $near clause: the drivers of `matching` within maxDistance metres of
\* the point, nearest first.  The order of two drivers at the same distance
\* is the database's choice.
Near(matching, point, maxDistance) ==
  LET within == {d \in matching :
                   GeoDistance(drivers[d].currentLocation, point) <= maxDistance}
  IN CHOOSE s \in [1..Cardinality(within) -> within] :
       /\ \A i, j \in DOMAIN s : i # j => s[i] # s[j]
       /\ \A i, j \in DOMAIN s :
            i < j => GeoDistance(drivers[s[i]].currentLocation, point)
                       <= GeoDistance(drivers[s[j]].currentLocation, point)

\* getNearbyDrivers (GET /venue/:id/nearby-drivers): "15km in meters"
VenueMaxDistance == 15000

GetNearbyDriversCode(o, actor) ==
  IF actor \notin StaffUsers THEN "Unauthorized"
  ELSE IF ~Exists(o) THEN "NotFound"
  ELSE IF OrderVenue[o] # StaffVenue[actor] THEN "Unauthorized"
  ELSE "OK"

GetNearbyDriversResult(o) ==
  Near({d \in DOMAIN drivers :
          /\ drivers[d].isAvailable
          /\ drivers[d].isOnDuty
          /\ drivers[d].status = "active"},
       orders[o].coordinates, VenueMaxDistance)

GetNearbyDrivers(o, actor) ==
  /\ GetNearbyDriversCode(o, actor) = "OK"
       => GetNearbyDriversResult(o) \in Seq(DOMAIN drivers)
  /\ UNCHANGED vars

\* FoodDelivery.statics.findNearbyDrivers(orderId, maxDistance = 5000)
FindNearbyDriversResult(o, maxDistance) ==
  Near({d \in DOMAIN drivers :
          /\ drivers[d].isAvailable
          /\ drivers[d].isOnDuty
          /\ drivers[d].status = "active"},
       orders[o].coordinates, maxDistance)

FindNearbyDrivers(o, maxDistance) ==
  /\ Exists(o) => FindNearbyDriversResult(o, maxDistance) \in Seq(DOMAIN drivers)
  /\ UNCHANGED vars

\* getNearbyDrivers of the admin dashboard (GET /api/admin/delivery-drivers/
\* nearby); latitude is <<>> when the query string has none, permitted is
\* admin.permissions.manageDeliverySettings.
AdminGetNearbyDriversCode(latitude, permitted) ==
  IF ~permitted THEN "Forbidden"
  ELSE IF latitude = <<>> THEN "MissingCoordinates"
  ELSE "OK"

AdminGetNearbyDriversResult(latitude, maxDistance) ==
  Near({d \in DOMAIN drivers :
          /\ drivers[d].status = "active"
          /\ drivers[d].isAvailable},
       latitude[1], maxDistance)

AdminGetNearbyDrivers(latitude, maxDistance, permitted) ==
  /\ AdminGetNearbyDriversCode(latitude, permitted) = "OK"
       => AdminGetNearbyDriversResult(latitude, maxDistance) \in Seq(DOMAIN drivers)
  /\ UNCHANGED vars

----------------------------------------------------------------------------
(* updateDriverLocation (deliveryDriver.controller.js) and the admin's     *)
(* updateDriverStatus (adminDeliveryDashboard.controller.js)               *)

\* latitude is the JSON number of the body, <<>> when it is missing; the
\* number 0 is falsy and is refused with the missing ones.
UpdateDriverLocationCode(d, latitude) ==
  IF latitude = <<>> THEN "MissingCoordinates"
  ELSE IF latitude[1] = 0 THEN "MissingCoordinates"
  ELSE IF d \notin DOMAIN drivers THEN "NotFound"
  ELSE "OK"

\* With or without the geocoded address the coordinates are written.
UpdateDriverLocation(d, latitude) ==
  IF UpdateDriverLocationCode(d, latitude) = "OK"
  THEN /\ drivers' = [drivers EXCEPT ![d].currentLocation = latitude[1]]
       /\ txn' = Conflicts({}, {d})
       /\ UNCHANGED <<orders, payments, venues>>
  ELSE UNCHANGED vars

AdminUpdateDriverStatusCode(d, status, permitted) ==
  IF ~permitted THEN "Forbidden"
  ELSE IF status \notin {"active", "suspended", "rejected"} THEN "InvalidStatus"
  ELSE IF d \notin DOMAIN drivers THEN "NotFound"
  ELSE "OK"

\* suspensionReason accompanies every suspension of the model.
AdminUpdateDriverStatus(d, status, permitted) ==
  IF AdminUpdateDriverStatusCode(d, status, permitted) = "OK"
  THEN /\ drivers' = [drivers EXCEPT ![d].status = status]
       /\ txn' = Conflicts({}, {d})
       /\ UNCHANGED <<orders, payments, venues>>
  ELSE UNCHANGED vars

----------------------------------------------------------------------------
(* createFoodDeliveryOrder: POST /customer *)

\* req.user.role
UserRole(user) ==
  IF user \in CustomerUsers THEN "customer"
  ELSE IF user \in StaffUsers THEN "business_owner"
  ELSE "admin"

\* Mutation: the radius check rejects the boundary as well.
OutsideRadius_Boundary(distance, deliveryRadius) == distance >= deliveryRadius

\* "Check if within delivery radius": distance > venueDetails.deliveryRadius
OutsideRadius(distance, deliveryRadius) == distance > deliveryRadius

\* The checks that come before the radius check
CreateFoodDeliveryOrderRequestCheck(user, body) ==
  IF UserRole(user) # "customer" THEN "Forbidden"
  ELSE IF body.venue = "absent" \/ body.items = <<>> \/ body.paymentMethod = "absent"
    THEN "MissingFields"
  ELSE IF Len(body.coordinates) # 1 THEN "InvalidCoordinates"
  ELSE IF \E i \in 1..Len(body.items) : ~ValidItem(body.items[i]) THEN "InvalidItem"
  ELSE IF body.paymentMethod \notin validPaymentMethods THEN "InvalidPaymentMethod"
  ELSE IF body.venue \notin DOMAIN venues THEN "VenueNotFound"
  ELSE IF ~venues[body.venue].isAvailable THEN "VenueUnavailable"
  ELSE "OK"

CreateFoodDeliveryOrderCheck(user, body) ==
  LET pre == CreateFoodDeliveryOrderRequestCheck(user, body) IN
  IF pre # "OK" THEN pre
  ELSE IF OutsideRadius(calculateDistance(venues[body.venue].latitude, body.coordinates[1]),
                        venues[body.venue].deliveryRadius)
    THEN "OutOfDeliveryRange"
  ELSE "OK"

\* FoodDelivery.create validates the document against the schema: the
\* paymentMethod enum, the menuItemId validator, min 0 of tip.
CreateValidates(body) ==
  /\ body.paymentMethod \in SchemaPaymentMethods
  /\ \A i \in 1..Len(body.items) : body.items[i].menuItemId \in MenuItems
  /\ body.tip >= 0

\* A failure of the geocoder is caught and replaced by "Unknown" values, so
\* the answer does not depend on it.
CreateFoodDeliveryOrderCode(user, body) ==
  LET pre == CreateFoodDeliveryOrderCheck(user, body) IN
  IF pre # "OK" THEN pre
  ELSE IF ~CreateValidates(body) THEN "Failed"
  ELSE "OK"

\* Ids the new document can get: the model's orders carry their venue and
\* customer in their id.
FreeIds(user, body) ==
  {o \in Orders \ DOMAIN orders : OrderVenue[o] = body.venue /\ OrderCustomer[o] = user}

CreateFoodDeliveryOrderVenues(body) ==
  [venues EXCEPT ![body.venue].totalOrders = @ + 1]

CreateFoodDeliveryOrder(user, body, geocoded, currentTime) ==
  \/ /\ CreateFoodDeliveryOrderCode(user, body) # "OK"
     /\ UNCHANGED vars
  \/ /\ CreateFoodDeliveryOrderCode(user, body) = "OK"
     /\ \E o \in FreeIds(user, body) :
          orders' = [x \in DOMAIN orders \cup {o} |->
                       IF x = o
                       THEN CreatedOrder(body, venues[body.venue], geocoded, currentTime)
                       ELSE orders[x]]
     /\ venues' = CreateFoodDeliveryOrderVenues(body)
     /\ txn' = Conflicts({}, {})
     /\ UNCHANGED <<drivers, payments>>

----------------------------------------------------------------------------
(* Payment handlers (foodDeliveryPayment.controller.js).  A payment record  *)
(* is keyed by its order: the order reference is unique.                    *)

\* validPaymentMethods of createFoodDeliveryPayment
PaymentMethods ==
  {"stripe", "paypal", "razorpay", "esewa", "credit_card", "cash_on_delivery"}

\* verifyAdminJwt in front of /payments/:id/status and /payments/:id/refund:
\* the caller is an admin, and the handler reads the caller's identity and
\* role.
VerifyAdminJwt(user) == user \in AdminUsers

\* Math.abs(amount - order.totalAmount)
AmountDifference(amount, totalAmount) ==
  IF amount >= totalAmount THEN amount - totalAmount ELSE totalAmount - amount

\* Mutation: the tolerance is a whole cent more.
AmountMatches_TwoCents(amount, totalAmount) ==
  AmountDifference(amount, totalAmount) <= 20

\* "Allow small floating point differences": the request is refused when the
\* difference exceeds 0.01.
AmountMatches(amount, totalAmount) ==
  AmountDifference(amount, totalAmount) <= 10

\* order.customer._id.toString() !== userId.toString()
PaysOwnOrder(o, user) == OrderCustomer[o] = user

\* The checks before the method-specific branches; amount 0 and
\* paymentMethod "absent" are fields the body lacks.
CreateFoodDeliveryPaymentCheck(o, user, paymentMethod, amount) ==
  IF paymentMethod = "absent" \/ amount = 0 THEN "MissingFields"
  ELSE IF amount <= 0 THEN "InvalidAmount"
  ELSE IF paymentMethod \notin PaymentMethods THEN "InvalidPaymentMethod"
  ELSE IF ~Exists(o) THEN "NotFound"
  ELSE IF ~PaysOwnOrder(o, user) THEN "Unauthorized"
  ELSE IF ~AmountMatches(amount, orders[o].totalAmount) THEN "AmountMismatch"
  ELSE "OK"

\* FoodDeliveryPayment.create: the unique indexes on order and transactionId
\* and the schema's validation (transactionId is required unless the method is
\* stripe); inserted is FALSE when the write fails for another reason.
InsertSucceeds(o, paymentMethod, transactionId, inserted) ==
  /\ inserted
  /\ o \notin DOMAIN payments
  /\ paymentMethod # "stripe" => transactionId # "absent"
  /\ \A p \in DOMAIN payments : payments[p].transactionId # transactionId

\* The transactionId the record is given: the intent's id for stripe, none
\* for cash on delivery, the request's for the other methods.
CreatedTransactionId(o, paymentMethod, transactionId) ==
  IF paymentMethod = "stripe" THEN IntentId(o)
  ELSE IF paymentMethod = "cash_on_delivery" THEN "absent"
  ELSE transactionId

\* gateway is the answer of createStripePaymentIntent: "throws" or the status
\* of the new intent.
CreateFoodDeliveryPaymentCode(o, user, paymentMethod, amount, transactionId, gateway, inserted) ==
  LET pre == CreateFoodDeliveryPaymentCheck(o, user, paymentMethod, amount)
      id == CreatedTransactionId(o, paymentMethod, transactionId)
  IN
  IF pre # "OK" THEN pre
  ELSE IF paymentMethod = "stripe" /\ gateway = "throws" THEN "Failed"
  ELSE IF paymentMethod \notin {"stripe", "cash_on_delivery"} /\ transactionId = "absent"
    THEN "TransactionIdRequired"
  ELSE IF ~InsertSucceeds(o, paymentMethod, id, inserted) THEN "Failed"
  ELSE "OK"

\* refunds is the list the refund handler pushes each accepted refund on
\* (paymentMetadata.refunds).
CreatedPayment(o, user, paymentMethod, amount, transactionId, gateway) ==
  [user |-> user,
   paymentMethod |-> paymentMethod,
   amount |-> amount,
   transactionId |-> CreatedTransactionId(o, paymentMethod, transactionId),
   paymentStatus |-> IF paymentMethod = "stripe" THEN gateway ELSE "pending",
   refundAmount |-> 0,
   refunds |-> <<>>]

\* "Update order with payment info"
CreateFoodDeliveryPaymentOrder(o, paymentMethod) ==
  [orders[o] EXCEPT !.paymentMethod = paymentMethod, !.paymentStatus = "pending"]

CreateFoodDeliveryPayment(o, user, paymentMethod, amount, transactionId, gateway, inserted) ==
  IF CreateFoodDeliveryPaymentCode(o, user, paymentMethod, amount, transactionId,
                                   gateway, inserted) = "OK"
  THEN /\ payments' = (o :> CreatedPayment(o, user, paymentMethod, amount,
                                           transactionId, gateway)) @@ payments
       /\ orders' = [orders EXCEPT ![o] = CreateFoodDeliveryPaymentOrder(o, paymentMethod)]
       /\ txn' = Conflicts({o}, {})
       /\ UNCHANGED <<drivers, venues>>
  ELSE UNCHANGED vars

\* payment_intent.created of the webhook: a record for an intent the order's
\* customer owns, written outside any transaction; amount is the intent's.
HandlePaymentIntentCreatedCode(o, user, inserted) ==
  IF ~Exists(o) \/ user \notin Users THEN "NotFound"
  ELSE IF OrderCustomer[o] # user THEN "Unauthorized"
  ELSE IF ~InsertSucceeds(o, "stripe", IntentId(o), inserted) THEN "WebhookError"
  ELSE "OK"

HandlePaymentIntentCreated(o, user, amount, inserted) ==
  IF HandlePaymentIntentCreatedCode(o, user, inserted) = "OK"
  THEN /\ payments' = (o :> CreatedPayment(o, user, "stripe", amount, "absent",
                                           "requires_payment_method")) @@ payments
       /\ txn' = Conflicts({}, {})
       /\ UNCHANGED <<orders, drivers, venues>>
  ELSE UNCHANGED vars

\* confirmFoodDeliveryPayment: the intent of order o is confirmed at the
\* gateway first (gateway is its answer, "throws" or the intent's status),
\* then the record with that transactionId and user is updated.
ConfirmFoodDeliveryPaymentCode(o, user, gateway) ==
  IF gateway = "throws" THEN "Failed"
  ELSE IF o \notin DOMAIN payments THEN "Failed"
  ELSE IF payments[o].transactionId # IntentId(o) \/ payments[o].user # user THEN "Failed"
  ELSE "OK"

ConfirmFoodDeliveryPaymentOrder(o, gateway) ==
  IF gateway = "succeeded" /\ Exists(o)
  THEN [orders EXCEPT ![o].paymentStatus = "paid", ![o].deliveryStatus = "preparing"]
  ELSE orders

ConfirmFoodDeliveryPayment(o, user, gateway) ==
  IF ConfirmFoodDeliveryPaymentCode(o, user, gateway) = "OK"
  THEN /\ payments' = [payments EXCEPT ![o].paymentStatus = gateway]
       /\ orders' = ConfirmFoodDeliveryPaymentOrder(o, gateway)
       /\ txn' = Conflicts({o}, {})
       /\ UNCHANGED <<drivers, venues>>
  ELSE UNCHANGED vars

\* validStatuses of updateFoodDeliveryPaymentStatus
ValidPaymentStatuses ==
  {"requires_payment_method", "requires_confirmation", "requires_action", "processing",
   "requires_capture", "succeeded", "canceled", "failed", "pending", "paid", "refunded"}

UpdateFoodDeliveryPaymentStatusCode(p, user, paymentStatus) ==
  IF ~VerifyAdminJwt(user) THEN "Unauthenticated"
  ELSE IF paymentStatus = "absent" THEN "MissingFields"
  ELSE IF paymentStatus \notin ValidPaymentStatuses THEN "InvalidStatus"
  ELSE IF p \notin DOMAIN payments THEN "NotFound"
  ELSE IF payments[p].user # user /\ UserRole(user) # "admin" THEN "Unauthorized"
  ELSE "OK"

\* "Update food delivery order if payment succeeded or failed"
UpdateFoodDeliveryPaymentStatusOrder(p, paymentStatus) ==
  IF ~Exists(p) THEN orders
  ELSE IF paymentStatus \in {"succeeded", "paid"}
    THEN [orders EXCEPT ![p].paymentStatus = "paid", ![p].deliveryStatus = "preparing"]
  ELSE IF paymentStatus = "failed"
    THEN [orders EXCEPT ![p].paymentStatus = "failed", ![p].deliveryStatus = "failed"]
  ELSE IF paymentStatus = "refunded"
    THEN [orders EXCEPT ![p].paymentStatus = "refunded", ![p].deliveryStatus = "failed"]
  ELSE orders

UpdateFoodDeliveryPaymentStatus(p, user, paymentStatus) ==
  IF UpdateFoodDeliveryPaymentStatusCode(p, user, paymentStatus) = "OK"
  THEN /\ payments' = [payments EXCEPT ![p].paymentStatus = paymentStatus]
       /\ orders' = UpdateFoodDeliveryPaymentStatusOrder(p, paymentStatus)
       /\ txn' = Conflicts({p}, {})
       /\ UNCHANGED <<drivers, venues>>
  ELSE UNCHANGED vars

RECURSIVE SumRefunds(_)
\* The sum of the amounts of a refunds list
SumRefunds(refunds) ==
  IF refunds = <<>> THEN 0 ELSE Head(refunds) + SumRefunds(Tail(refunds))

\* const refundAmount = amount || payment.amount; amount 0 is a body
\* without amount.
RefundAmount(p, amount) == IF amount = 0 THEN payments[p].amount ELSE amount

\* refundStripePayment: the gateway refunds at most what is left of the
\* charge; gateway is FALSE when the call fails for another reason.
GatewayRefunds(p, refundAmount, gateway) ==
  /\ gateway
  /\ refundAmount > 0
  /\ SumRefunds(payments[p].refunds) + refundAmount <= payments[p].amount

HandleFoodDeliveryPaymentRefundCheck(p, user, amount) ==
  IF ~VerifyAdminJwt(user) THEN "Unauthenticated"
  ELSE IF UserRole(user) # "admin" THEN "Forbidden"
  ELSE IF p \notin DOMAIN payments THEN "NotFound"
  ELSE IF payments[p].paymentStatus \notin {"paid", "succeeded"} THEN "NotRefundable"
  ELSE IF RefundAmount(p, amount) > payments[p].amount THEN "ExceedsPayment"
  ELSE "OK"

\* After the checks: the gateway call of a stripe payment, then
\* payment.save(), whose validation refuses a negative refundAmount (min: 0).
HandleFoodDeliveryPaymentRefundCode(p, user, amount, gateway) ==
  LET pre == HandleFoodDeliveryPaymentRefundCheck(p, user, amount) IN
  IF pre # "OK" THEN pre
  ELSE IF payments[p].paymentMethod = "stripe"
          /\ ~GatewayRefunds(p, RefundAmount(p, amount), gateway) THEN "Failed"
  ELSE IF RefundAmount(p, amount) < 0 THEN "Failed"
  ELSE "OK"

RefundedStatus(p, refundAmount) ==
  IF refundAmount = payments[p].amount THEN "refunded" ELSE "partially_refunded"

HandleFoodDeliveryPaymentRefundPayment(p, amount) ==
  [payments[p] EXCEPT
     !.paymentStatus = RefundedStatus(p, RefundAmount(p, amount)),
     !.refundAmount = RefundAmount(p, amount),
     !.refunds = Append(@, RefundAmount(p, amount))]

HandleFoodDeliveryPaymentRefundOrder(p, amount) ==
  IF Exists(p)
  THEN [orders EXCEPT ![p].paymentStatus = RefundedStatus(p, RefundAmount(p, amount)),
                      ![p].deliveryStatus = "failed"]
  ELSE orders

HandleFoodDeliveryPaymentRefund(p, user, amount, gateway) ==
  IF HandleFoodDeliveryPaymentRefundCode(p, user, amount, gateway) = "OK"
  THEN /\ Len(payments[p].refunds) < MaxRefunds
       /\ payments' = [payments EXCEPT ![p] = HandleFoodDeliveryPaymentRefundPayment(p, amount)]
       /\ orders' = HandleFoodDeliveryPaymentRefundOrder(p, amount)
       /\ txn' = Conflicts({p}, {})
       /\ UNCHANGED <<drivers, venues>>
  ELSE UNCHANGED vars

----------------------------------------------------------------------------
(* Specification: the handlers, one request at a time *)

Init ==
  /\ orders = [o \in {"o1"} |-> NewOrder]
  /\ drivers = [d \in DriverIds |-> NewDriver]
  /\ payments = [o \in {} |-> [paymentStatus |-> "pending"]]
  /\ venues = [v \in Venues |-> NewVenue]
  /\ txn = [w \in {} |-> NoTxn]

\* Ids a request can name: the orders that exist and one that does not.
RequestIds == DOMAIN orders \cup {"o0"}

Next ==
  \/ \E o \in RequestIds, status \in DeliveryStatuses, actor \in Actors, v \in BOOLEAN :
       UpdateOrderStatus(o, status, actor, v, <<>>)
  \/ \E o \in RequestIds, d \in DriverIds, actor \in Actors : AssignDriverToOrder(o, d, actor)
  \/ \E o \in DOMAIN orders, d \in DriverIds : AssignDriver(o, d)
  \/ \E o \in RequestIds, caller \in Users, v \in BOOLEAN : CancelOrder(o, caller, v)
  \/ \E d \in DriverIds, a \in Flags, b \in Flags : UpdateDriverStatus(d, a, b)
  \/ \E o \in RequestIds, e \in WebhookEvents : HandleFoodDeliveryStripeWebhook(o, e)
  \/ \E o \in RequestIds, body \in RatingBodies, v \in BOOLEAN :
       SubmitOrderRating(o, NoUser, body, v)

Spec == Init /\ [][Next]_vars

----------------------------------------------------------------------------
(* Specification: two orders of two venues, from the moment both are paid   *)
(* and marked ready and the drivers have gone on duty                       *)

\* A paid order its venue has marked ready: payment_intent.succeeded moved it
\* to preparing, updateOrderStatus(ready) appended the tracking entry.
ReadyOrder ==
  [NewOrder EXCEPT
     !.deliveryStatus = "ready",
     !.paymentStatus = "paid",
     !.trackingUpdates = <<[status |-> "ready", updatedBy |-> "venue"]>>]

\* A driver after updateDriverStatus {isOnDuty: true}.
OnDutyDriver == [NewDriver EXCEPT !.isOnDuty = TRUE]

InitFleet ==
  /\ orders = [o \in Orders |-> ReadyOrder]
  /\ drivers = [d \in DriverIds |-> OnDutyDriver]
  /\ payments = [o \in {} |-> [paymentStatus |-> "pending"]]
  /\ venues = [v \in Venues |-> NewVenue]
  /\ txn = [w \in {} |-> NoTxn]

NextFleet ==
  \/ \E o \in RequestIds, status \in DeliveryStatuses, actor \in Actors, v \in BOOLEAN :
       UpdateOrderStatus(o, status, actor, v, <<>>)
  \/ \E o \in RequestIds, d \in DriverIds, actor \in Actors : AssignDriverToOrder(o, d, actor)
  \/ \E o \in RequestIds, caller \in Users, v \in BOOLEAN : CancelOrder(o, caller, v)
  \/ \E d \in DriverIds, a \in Flags, b \in Flags : UpdateDriverStatus(d, a, b)

SpecFleet == InitFleet /\ [][NextFleet]_vars

----------------------------------------------------------------------------
(* Specification: two requests in flight at once.  A handler that runs in a *)
(* MongoDB transaction reads its documents when it begins and writes them   *)
(* when it commits; a write to a document that another request has written  *)
(* since the read fails with a write conflict, which the handler's catch    *)
(* block turns into its generic 500 after aborting.  The webhook awaits the *)
(* payment record update, then writes the order with findOneAndUpdate.      *)

Workers == {"w1", "w2"}

\* The request worker w has in flight, and the requests in flight when it began.
OpenTxn(w, op, o, d, actor, arg) ==
  [op |-> op, order |-> o, driver |-> d, actor |-> actor, arg |-> arg,
   phase |-> "open", stale |-> FALSE, code |-> "none",
   overlaps |-> {x \in DOMAIN txn \ {w} : txn[x].phase = "open"}]

\* updateOrderStatus up to its checks: a rejected request ends at once.
BeginUpdateOrderStatus(w, o, status, actor) ==
  /\ txn[w].phase = "idle"
  /\ txn' = IF UpdateOrderStatusCheck(o, status, actor) = "OK"
            THEN [txn EXCEPT ![w] =
                    OpenTxn(w, "updateOrderStatus", o,
                            IF status = "delivered" THEN orders[o].deliveryDriver
                            ELSE NoDriver,
                            actor, status)]
            ELSE txn
  /\ UNCHANGED <<orders, drivers, payments, venues>>

\* assignDriverToOrder up to its checks.
BeginAssignDriverToOrder(w, o, d, actor) ==
  /\ txn[w].phase = "idle"
  /\ txn' = IF AssignDriverToOrderCheck(o, d, actor) = "OK"
            THEN [txn EXCEPT ![w] = OpenTxn(w, "assignDriverToOrder", o, d, actor, "none")]
            ELSE txn
  /\ UNCHANGED <<orders, drivers, payments, venues>>

\* cancelOrder up to its checks.
BeginCancelOrder(w, o, caller) ==
  /\ txn[w].phase = "idle"
  /\ txn' = IF CancelOrderCheck(o, caller) = "OK"
            THEN [txn EXCEPT ![w] =
                    OpenTxn(w, "cancelOrder", o, orders[o].deliveryDriver, caller, "none")]
            ELSE txn
  /\ UNCHANGED <<orders, drivers, payments, venues>>

\* The webhook up to its write of the order: the event is verified and the
\* payment record updated.
BeginWebhook(w, o, event) ==
  /\ txn[w].phase = "idle"
  /\ txn' = [txn EXCEPT ![w] = OpenTxn(w, "webhook", o, NoDriver, "stripe", event)]
  /\ UNCHANGED <<orders, drivers, payments, venues>>

\* The response of the request in flight at w when it reaches its writes.
CommitCode(w, validateAll) ==
  LET t == txn[w] IN
  CASE t.op = "webhook" -> "OK"
    [] t.op # "webhook" /\ t.stale -> "Failed"
    [] t.op = "updateOrderStatus" /\ ~t.stale ->
         UpdateOrderStatusCode(t.order, t.arg, t.actor, validateAll)
    [] t.op = "assignDriverToOrder" /\ ~t.stale ->
         AssignDriverToOrderCode(t.order, t.driver, t.actor)
    [] t.op = "cancelOrder" /\ ~t.stale -> CancelOrderCode(t.order, t.actor, validateAll)

\* The order collection after the writes of the request in flight at w.
CommitOrders(w) ==
  LET t == txn[w] IN
  IF ~Exists(t.order) THEN orders
  ELSE [orders EXCEPT ![t.order] =
          CASE t.op = "webhook" -> WebhookOrder(t.order, t.arg)
            [] t.op = "updateOrderStatus" -> UpdateOrderStatusOrder(t.order, t.arg, t.actor)
            [] t.op = "assignDriverToOrder" -> AssignDriverToOrderOrder(t.order, t.driver)
            [] t.op = "cancelOrder" -> CancelOrderOrder(t.order)]

\* The driver collection after the writes of the request in flight at w.
CommitDrivers(w) ==
  LET t == txn[w] IN
  CASE t.op = "webhook" -> drivers
    [] t.op = "updateOrderStatus" -> UpdateOrderStatusDrivers(t.order, t.arg, t.actor, <<>>)
    [] t.op = "assignDriverToOrder" -> AssignDriverToOrderDrivers(t.driver)
    [] t.op = "cancelOrder" -> CancelOrderDrivers(t.order)

\* The driver documents the request in flight at w writes.
CommitWrites(w) ==
  LET t == txn[w] IN
  CASE t.op = "webhook" -> {}
    [] t.op = "updateOrderStatus" -> UpdateOrderStatusWrites(t.order, t.arg, t.actor, <<>>)
    [] t.op = "assignDriverToOrder" -> {t.driver}
    [] t.op = "cancelOrder" -> {t.driver}

\* The rest of a handler: its writes and commitTransaction, or the catch
\* block: abortTransaction and the error response.
Commit(w, validateAll) ==
  /\ txn[w].phase = "open"
  /\ txn[w].op = "updateOrderStatus" /\ CommitCode(w, validateAll) = "OK"
       => Len(orders[txn[w].order].trackingUpdates) < MaxTrack
  /\ IF CommitCode(w, validateAll) = "OK"
     THEN /\ orders' = CommitOrders(w)
          /\ drivers' = CommitDrivers(w)
          /\ txn' = [Conflicts({txn[w].order}, CommitWrites(w)) EXCEPT
                       ![w].phase = "committed", ![w].code = "OK", ![w].stale = txn[w].stale]
     ELSE /\ txn' = [txn EXCEPT ![w].phase = "aborted",
                                ![w].code = CommitCode(w, validateAll)]
          /\ UNCHANGED <<orders, drivers>>
  /\ UNCHANGED <<payments, venues>>

\* Orders a customer has just placed or a venue has marked ready.
InitRace ==
  /\ orders \in [Orders -> {NewOrder, ReadyOrder}]
  /\ drivers = [d \in DriverIds |-> OnDutyDriver]
  /\ payments = [o \in {} |-> [paymentStatus |-> "pending"]]
  /\ venues = [v \in Venues |-> NewVenue]
  /\ txn = [w \in Workers |-> NoTxn]

NextRace ==
  \/ \E w \in Workers, o \in RequestIds, status \in DeliveryStatuses, actor \in Actors :
       BeginUpdateOrderStatus(w, o, status, actor)
  \/ \E w \in Workers, o \in RequestIds, d \in DriverIds, actor \in Actors :
       BeginAssignDriverToOrder(w, o, d, actor)
  \/ \E w \in Workers, o \in RequestIds, caller \in Users : BeginCancelOrder(w, o, caller)
  \/ \E w \in Workers, o \in RequestIds, e \in WebhookEvents : BeginWebhook(w, o, e)
  \/ \E w \in Workers, v \in BOOLEAN : Commit(w, v)
  \/ \E d \in DriverIds, a \in Flags, b \in Flags : UpdateDriverStatus(d, a, b)

SpecRace == InitRace /\ [][NextRace]_vars


----------------------------------------------------------------------------
(* Specification: order creation.  Customers place orders at a venue that  *)
(* delivers within 10 km or within 9.9 km and at one that is open or       *)
(* closed; the geocoder answers with an address, with empty fields, or     *)
(* throws.                                                                 *)

NearVenue == [NewVenue EXCEPT !.deliveryRadius = 990]
ClosedVenue == [NewVenue EXCEPT !.isAvailable = FALSE]

ItemLists ==
  {<<>>,
   <<[menuItemId |-> "m1", quantity |-> 2, price |-> 12500]>>,
   <<[menuItemId |-> "m1", quantity |-> 1, price |-> 3333]>>,
   <<[menuItemId |-> "m1", quantity |-> 1, price |-> 12500],
     [menuItemId |-> "m1", quantity |-> 2, price |-> 1000]>>,
   <<[menuItemId |-> "m1", quantity |-> 0, price |-> 12500]>>,
   <<[menuItemId |-> "m0", quantity |-> 1, price |-> 12500]>>}

\* No tip, a tip of 1.50, and 15% of 25.37 as a client computes it
Tips == {0, 1500, 3806}

\* 9.90 km, 10.01 km, and an array of the wrong length
Dropoffs == {<<89>>, <<90>>, <<>>}

\* Requests that differ from DefaultBody in one field, at either venue or
\* at a venue that does not exist, and one that is wrong in two fields
BodiesAt(venue) ==
  LET body == [DefaultBody EXCEPT !.venue = venue] IN
  {[body EXCEPT !.items = items] : items \in ItemLists}
    \cup {[body EXCEPT !.tip = tip] : tip \in Tips}
    \cup {[body EXCEPT !.coordinates = coordinates] : coordinates \in Dropoffs}
    \cup {[body EXCEPT !.paymentMethod = paymentMethod] :
            paymentMethod \in {"stripe", "cash_on_delivery", "bitcoin"}}
    \cup {[body EXCEPT !.deliveryAddress = "Side Street"],
          [body EXCEPT !.coordinates = <<90>>, !.paymentMethod = "bitcoin"]}

CreateBodies == BodiesAt("v1") \cup BodiesAt("v2") \cup BodiesAt("v0")

GeocoderAnswers == {"throws", "empty", "Main Street"}

\* Noon, and 18:20 inside the surge window
ClockTimes == {720, 1100}

InitCreate ==
  /\ orders = [o \in {} |-> NewOrder]
  /\ drivers = [d \in DriverIds |-> NewDriver]
  /\ payments = [o \in {} |-> [paymentStatus |-> "pending"]]
  /\ txn = [w \in {} |-> NoTxn]
  /\ venues \in [Venues -> {NewVenue, NearVenue, ClosedVenue}]

NextCreate ==
  \E user \in {"c1", "c2", "s1"}, body \in CreateBodies,
     geocoded \in GeocoderAnswers, currentTime \in ClockTimes :
    CreateFoodDeliveryOrder(user, body, geocoded, currentTime)

SpecCreate == InitCreate /\ [][NextCreate]_vars

----------------------------------------------------------------------------
(* Specification of the fee calculation: createFoodDeliveryOrder applies   *)
(* calculateDynamicDeliveryFee to fee configurations, distances, clock     *)
(* times and subtotals of bounded sets.                                    *)

\* The configuration of the specification's Scenario 1: one tier up to 5 km
\* at 1.00 per km, no surge window.
ScenarioConfig ==
  [base |-> 5000,
   distanceRates |-> <<[minDistance |-> 0, maxDistance |-> 500, rate |-> 1000]>>,
   surgeMultipliers |-> <<>>,
   smallOrderThreshold |-> 15000,
   smallOrderFee |-> 2000,
   serviceFeePercentage |-> 10,
   handlingFee |-> 1000]

\* Tiers that leave 5 to 10 km uncovered, two surge windows that overlap
\* from 20:00 to 21:00, and amounts whose products do not fall on a cent.
GapConfig ==
  [base |-> 4990,
   distanceRates |-> <<[minDistance |-> 0, maxDistance |-> 500, rate |-> 1250],
                       [minDistance |-> 1000, maxDistance |-> 3000, rate |-> 1750]>>,
   surgeMultipliers |-> <<[startTime |-> 1080, endTime |-> 1260, multiplier |-> 15],
                          [startTime |-> 1200, endTime |-> 1320, multiplier |-> 20]>>,
   smallOrderThreshold |-> 12500,
   smallOrderFee |-> 1500,
   serviceFeePercentage |-> 15,
   handlingFee |-> 0]

FeeConfigs == {ScenarioConfig, FeeConfig, GapConfig}

\* A venue that delivers within 30 km under the given fee configuration
FeeVenue(config) == [NewVenue EXCEPT !.deliveryRadius = 3000, !.deliveryFee = config]

\* Dropoffs at 0, 3.00, 5.00, 7.01, 10.01 and 25.02 km from the venue, and
\* one at 31.13 km, outside its radius
FeeDropoffs == {<<0>>, <<27>>, <<45>>, <<63>>, <<90>>, <<225>>, <<280>>}

\* Subtotals of 10.00, 12.49, 15.00, 9.99 and 25.00
FeeItemLists ==
  {<<[menuItemId |-> "m1", quantity |-> 1, price |-> 10000]>>,
   <<[menuItemId |-> "m1", quantity |-> 1, price |-> 12490]>>,
   <<[menuItemId |-> "m1", quantity |-> 2, price |-> 7500]>>,
   <<[menuItemId |-> "m1", quantity |-> 3, price |-> 3330]>>,
   <<[menuItemId |-> "m1", quantity |-> 2, price |-> 12500]>>}

FeeBodies ==
  {[DefaultBody EXCEPT !.items = items, !.coordinates = coordinates] :
     items \in FeeItemLists, coordinates \in FeeDropoffs}

\* Noon, 18:00, 18:20, 20:30, 22:00 and 22:01
FeeTimes == {720, 1080, 1100, 1230, 1320, 1321}

InitFee ==
  /\ orders = [o \in {} |-> NewOrder]
  /\ drivers = [d \in DriverIds |-> NewDriver]
  /\ payments = [o \in {} |-> [paymentStatus |-> "pending"]]
  /\ txn = [w \in {} |-> NoTxn]
  /\ venues \in {[v \in Venues |-> FeeVenue(config)] : config \in FeeConfigs}

NextFee ==
  \E body \in FeeBodies, currentTime \in FeeTimes :
    CreateFoodDeliveryOrder("c1", body, "Main Street", currentTime)

SpecFee == InitFee /\ [][NextFee]_vars

----------------------------------------------------------------------------
(* Specification of the delivery leg: one ready, paid order and two drivers *)
(* on duty whose positions are known; status requests may carry a location, *)
(* and the drivers switch their availability.                               *)

\* A driver on duty at the given latitude
LocatedDriver(latitude) ==
  [isAvailable |-> TRUE, isOnDuty |-> TRUE, completedDeliveries |-> 0,
   averageRating |-> <<0, 0>>, ratingCount |-> 0,
   currentLocation |-> latitude, status |-> "active"]

\* req.body.location and req.body.coordinates: none, or a point 5 km north of
\* the venue
Locations == {<<>>, <<45>>}

InitTrack ==
  /\ orders = [o \in {"o1"} |-> ReadyOrder]
  /\ drivers = [d \in DriverIds |-> LocatedDriver(0)]
  /\ payments = [o \in {} |-> [paymentStatus |-> "pending"]]
  /\ venues = [v \in Venues |-> NewVenue]
  /\ txn = [w \in {} |-> NoTxn]

NextTrack ==
  \/ \E o \in RequestIds, status \in DeliveryStatuses, actor \in Actors, v \in BOOLEAN,
        location \in Locations :
       UpdateOrderStatus(o, status, actor, v, location)
  \/ \E o \in RequestIds, d \in DriverIds, actor \in Actors : AssignDriverToOrder(o, d, actor)
  \/ \E d \in DriverIds, a \in Flags : UpdateDriverStatus(d, a, "absent")
  \/ \E o \in DOMAIN orders, e \in WebhookEvents : HandleFoodDeliveryStripeWebhook(o, e)
  \/ \E o \in RequestIds, d \in DriverIds, coordinates \in Locations,
        geocoded \in GeocoderAnswers, v \in BOOLEAN :
       UpdateDeliveryLocation(o, d, coordinates, geocoded, v)

SpecTrack == InitTrack /\ [][NextTrack]_vars

----------------------------------------------------------------------------
(* Specification of the three status writers: the controller's             *)
(* updateOrderStatus and the two updateStatus methods move one paid order.  *)

PaidOrder == [NewOrder EXCEPT !.paymentStatus = "paid"]

InitTables ==
  /\ orders = [o \in {"o1"} |-> PaidOrder]
  /\ drivers = [d \in DriverIds |-> LocatedDriver(0)]
  /\ payments = [o \in {} |-> [paymentStatus |-> "pending"]]
  /\ venues = [v \in Venues |-> NewVenue]
  /\ txn = [w \in {} |-> NoTxn]

NextTables ==
  \/ \E o \in RequestIds, status \in DeliveryStatuses, actor \in Actors, v \in BOOLEAN,
        location \in Locations :
       UpdateOrderStatus(o, status, actor, v, location)
  \/ \E o \in RequestIds, d \in DriverIds, actor \in Actors : AssignDriverToOrder(o, d, actor)
  \/ \E o \in DOMAIN orders, newStatus \in DeliveryStatuses, location \in Locations,
        v \in BOOLEAN :
       UpdateStatus(o, newStatus, "system", location, v)
  \/ \E o \in DOMAIN orders, newStatus \in DeliveryStatuses : AdminUpdateStatus(o, newStatus)

SpecTables == InitTables /\ [][NextTables]_vars

----------------------------------------------------------------------------
(* Specification of driver matching: one ready order 4.45 km north of its   *)
(* venue, two drivers who move, go on and off duty, are suspended and       *)
(* reinstated and take the order, and the three nearby-driver queries.      *)

\* Positions a driver reports: none, the equator, 3.3 km, 11.1 km and
\* 22.3 km north of the venue.
DriverLatitudes == {<<>>, <<0>>, <<30>>, <<100>>, <<200>>}

\* maxDistance of a query: the default and the venue's radius.
MaxDistances == {5000, 15000}

\* status values an admin sends; inactive is not one the handler accepts.
AdminStatuses == {"active", "suspended", "inactive"}

InitNearby ==
  /\ orders = [o \in {"o1"} |-> ReadyOrder]
  /\ drivers = [d \in DriverIds |->
                  LocatedDriver(IF d = "d1" THEN 30 ELSE 100)]
  /\ payments = [o \in {} |-> [paymentStatus |-> "pending"]]
  /\ venues = [v \in Venues |-> NewVenue]
  /\ txn = [w \in {} |-> NoTxn]

NextNearby ==
  \/ \E d \in DriverIds, a \in Flags, duty \in Flags : UpdateDriverStatus(d, a, duty)
  \/ \E d \in DriverIds, latitude \in DriverLatitudes : UpdateDriverLocation(d, latitude)
  \/ \E d \in DriverIds, status \in AdminStatuses, permitted \in BOOLEAN :
       AdminUpdateDriverStatus(d, status, permitted)
  \/ \E o \in RequestIds, d \in DriverIds, actor \in Actors : AssignDriverToOrder(o, d, actor)
  \/ \E o \in RequestIds, actor \in Actors : GetNearbyDrivers(o, actor)
  \/ \E o \in RequestIds, maxDistance \in MaxDistances : FindNearbyDrivers(o, maxDistance)
  \/ \E latitude \in DriverLatitudes, maxDistance \in MaxDistances, permitted \in BOOLEAN :
       AdminGetNearbyDrivers(latitude, maxDistance, permitted)

SpecNearby == InitNearby /\ [][NextNearby]_vars

----------------------------------------------------------------------------
(* Specification of the payments: one pending order of customer c1, paid    *)
(* for, confirmed, refunded and moved on by its venue, with the gateway's   *)
(* answers and webhook events arriving in any order.                        *)

\* The order with the paymentMethod its request named, the field the payment
\* handlers overwrite.
PayOrder == NewOrder @@ [paymentMethod |-> DefaultBody.paymentMethod]

\* req.body.amount of a payment: none, negative, the order's total, and one
\* and two cents more.
PaymentAmounts ==
  {0, -1000, NewOrder.totalAmount, NewOrder.totalAmount + 10, NewOrder.totalAmount + 20}

\* req.body.paymentMethod: none, three of the accepted ones, one that is not.
RequestedMethods == {"absent", "stripe", "paypal", "cash_on_delivery", "bitcoin"}

\* req.body.transactionId
RequestedTransactionIds == {"absent", "tx1"}

\* req.body.paymentStatus of a status update
RequestedPaymentStatuses ==
  {"absent", "paid", "failed", "refunded", "pending", "partially_refunded"}

\* req.body.amount of a refund: none (the whole payment), negative, 10.00,
\* the order's total, and 5.00 more than the total.
RefundAmounts ==
  {0, -1000, 10000, NewOrder.totalAmount, NewOrder.totalAmount + 5000}

InitPay ==
  /\ orders = [o \in {"o1"} |-> PayOrder]
  /\ drivers = [d \in DriverIds |-> NewDriver]
  /\ payments = [o \in {} |-> [paymentStatus |-> "pending"]]
  /\ venues = [v \in Venues |-> NewVenue]
  /\ txn = [w \in {} |-> NoTxn]

NextPay ==
  \/ \E o \in RequestIds, user \in CustomerUsers, paymentMethod \in RequestedMethods,
        amount \in PaymentAmounts, transactionId \in RequestedTransactionIds,
        gateway \in {"throws", "requires_payment_method"}, inserted \in BOOLEAN :
       CreateFoodDeliveryPayment(o, user, paymentMethod, amount, transactionId,
                                 gateway, inserted)
  \/ \E o \in RequestIds, user \in CustomerUsers, inserted \in BOOLEAN :
       HandlePaymentIntentCreated(o, user, NewOrder.totalAmount, inserted)
  \/ \E o \in RequestIds, user \in CustomerUsers,
        gateway \in {"throws", "succeeded", "requires_action"} :
       ConfirmFoodDeliveryPayment(o, user, gateway)
  \/ \E p \in RequestIds, user \in {"c1", "admin"},
        paymentStatus \in RequestedPaymentStatuses :
       UpdateFoodDeliveryPaymentStatus(p, user, paymentStatus)
  \/ \E p \in RequestIds, user \in {"c1", "admin"}, amount \in RefundAmounts,
        gateway \in BOOLEAN :
       HandleFoodDeliveryPaymentRefund(p, user, amount, gateway)
  \/ \E o \in RequestIds, e \in WebhookEvents : HandleFoodDeliveryStripeWebhook(o, e)
  \/ \E o \in RequestIds, status \in DeliveryStatuses, actor \in Actors, v \in BOOLEAN :
       UpdateOrderStatus(o, status, actor, v, <<>>)

SpecPay == InitPay /\ [][NextPay]_vars

----------------------------------------------------------------------------
(* Specification of payment creation: two pending orders of two customers,  *)
(* the customers' requests to pay for them, the gateway's confirmations and *)
(* its webhook events.                                                      *)

InitCharge ==
  /\ orders = [o \in Orders |-> PayOrder]
  /\ drivers = [d \in DriverIds |-> NewDriver]
  /\ payments = [o \in {} |-> [paymentStatus |-> "pending"]]
  /\ venues = [v \in Venues |-> NewVenue]
  /\ txn = [w \in {} |-> NoTxn]

NextCharge ==
  \/ \E o \in RequestIds, user \in CustomerUsers, paymentMethod \in RequestedMethods,
        amount \in PaymentAmounts, transactionId \in RequestedTransactionIds,
        gateway \in {"throws", "requires_payment_method"}, inserted \in BOOLEAN :
       CreateFoodDeliveryPayment(o, user, paymentMethod, amount, transactionId,
                                 gateway, inserted)
  \/ \E o \in RequestIds, user \in CustomerUsers, inserted \in BOOLEAN :
       HandlePaymentIntentCreated(o, user, NewOrder.totalAmount, inserted)
  \/ \E o \in RequestIds, user \in CustomerUsers,
        gateway \in {"throws", "succeeded", "requires_action"} :
       ConfirmFoodDeliveryPayment(o, user, gateway)
  \/ \E o \in RequestIds, e \in WebhookEvents : HandleFoodDeliveryStripeWebhook(o, e)

SpecCharge == InitCharge /\ [][NextCharge]_vars

----------------------------------------------------------------------------
(* Vocabulary of the properties *)

\* The legal transitions of the order state machine as the specification
\* lists them (section 4.2).
TransitionTable(from) ==
  CASE from = "pending" -> {"preparing", "failed"}
    [] from = "preparing" -> {"ready", "failed"}
    [] from = "ready" -> {"dispatched", "failed"}
    [] from = "dispatched" -> {"in_transit", "failed"}
    [] from = "in_transit" -> {"delivered", "failed"}
    [] OTHER -> {}

\* The edges the specification grants to each kind of actor.
VenueStaffEdge(from, to) ==
  \/ from = "pending" /\ to = "preparing"
  \/ from = "preparing" /\ to = "ready"
  \/ to = "failed"

DriverEdge(from, to) ==
  \/ from = "ready" /\ to = "dispatched"
  \/ from = "dispatched" /\ to = "in_transit"
  \/ from = "in_transit" /\ to = "delivered"
  \/ to = "failed"

OwningStaff(actor, o) == actor \in StaffUsers /\ StaffVenue[actor] = OrderVenue[o]

AssignedDriver(actor, o) == actor \in DriverIds /\ orders[o].deliveryDriver = actor

LastTracking(o) == orders[o].trackingUpdates[Len(orders[o].trackingUpdates)]

\* The step is an accepted updateOrderStatus(o, status) request of actor.
StatusStep(o, status, actor) ==
  \E v \in BOOLEAN : UpdateOrderStatus(o, status, actor, v, <<>>)

----------------------------------------------------------------------------
(* C1 *)

\* C1: every change of an order's deliveryStatus, by any operation, follows
\* an edge of the transition table, and delivered and failed are never left.
C1_StatusFollowsTable ==
  [][\A o \in DOMAIN orders :
       orders'[o].deliveryStatus # orders[o].deliveryStatus
         => orders'[o].deliveryStatus \in TransitionTable(orders[o].deliveryStatus)]_vars

----------------------------------------------------------------------------
(* C2 *)

\* C2: whatever the current status, requested status, actor and payment
\* status, a request updateOrderStatus applies is an edge of the transition
\* table that the specification grants to that actor (owning venue staff or
\* the order's assigned driver); every other request is rejected.
C2_OnlyPermittedEdges ==
  [][\A o \in DOMAIN orders : orders'[o] # orders[o] =>
       \A status \in DeliveryStatuses, actor \in Actors :
       StatusStep(o, status, actor)
         => /\ orders'[o].deliveryStatus = status
            /\ status \in TransitionTable(orders[o].deliveryStatus)
            /\ \/ OwningStaff(actor, o)
                  /\ VenueStaffEdge(orders[o].deliveryStatus, status)
               \/ AssignedDriver(actor, o)
                  /\ DriverEdge(orders[o].deliveryStatus, status)]_vars

\* A driver's delivered request and a venue's ready request have both been applied.
C2_Witness ==
  /\ orders["o1"].deliveryStatus = "delivered"
  /\ LastTracking("o1") = [status |-> "delivered", updatedBy |-> "driver"]
  /\ \E i \in 1..Len(orders["o1"].trackingUpdates) :
       orders["o1"].trackingUpdates[i] = [status |-> "ready", updatedBy |-> "venue"]


----------------------------------------------------------------------------
(* C3 *)

\* The order is out with its driver.
Busy(o) == orders[o].deliveryStatus \in {"dispatched", "in_transit"}

\* C3 as claimed: no two orders that are dispatched or in transit hold the
\* same driver, and while order a is out with driver d, assignDriverToOrder of
\* d to a ready order b by b's venue is answered DriverUnavailable.
C3_DriverExclusive ==
  \A a \in DOMAIN orders : \A b \in DOMAIN orders \ {a} :
    (Busy(a) /\ orders[a].deliveryDriver # NoDriver)
      => /\ Busy(b) => orders[b].deliveryDriver # orders[a].deliveryDriver
         /\ orders[b].deliveryStatus = "ready"
              => \A actor \in StaffUsers :
                   OwningStaff(actor, b)
                     => AssignDriverToOrderCode(b, orders[a].deliveryDriver, actor)
                          = "DriverUnavailable"

\* C3, the first half alone: the state in which two orders are out with the
\* same driver.
C3_NoSharedDriver ==
  \A a \in DOMAIN orders : \A b \in DOMAIN orders \ {a} :
    (Busy(a) /\ Busy(b) /\ orders[a].deliveryDriver # NoDriver)
      => orders[b].deliveryDriver # orders[a].deliveryDriver

----------------------------------------------------------------------------
(* C4, C5, C6 *)

\* Worker w has answered its request.
Finished(w) == txn[w].phase \in {"committed", "aborted"}

\* The requests of a and b were in flight together: each had begun, and read
\* what it reads, before the other wrote.
Overlapped(a, b) == a \in txn[b].overlaps \/ b \in txn[a].overlaps

\* The handlers that run in a transaction.
Transactional == {"updateOrderStatus", "assignDriverToOrder", "cancelOrder"}

\* C4 as claimed: of two overlapping assignDriverToOrder calls for different
\* ready orders and the same driver, one succeeds and the other is answered
\* DriverUnavailable, its order left ready with no driver.
C4_LoserDriverUnavailable ==
  \A a \in DOMAIN txn : \A b \in DOMAIN txn \ {a} :
    (/\ Overlapped(a, b)
     /\ txn[a].op = "assignDriverToOrder" /\ txn[b].op = "assignDriverToOrder"
     /\ txn[a].driver = txn[b].driver /\ txn[a].order # txn[b].order
     /\ ~txn[a].stale
     /\ Finished(a) /\ Finished(b))
      => /\ txn[a].phase = "committed"
         /\ txn[b].phase = "aborted"
         /\ txn[b].code = "DriverUnavailable"
         /\ orders[txn[b].order].deliveryStatus = "ready"
         /\ orders[txn[b].order].deliveryDriver = NoDriver

\* C5 as claimed, whatever the error of the losing request is called: of two
\* overlapping requests on the same order at most one commits, so that no
\* request writes over what the other committed after it had begun.
C5_AtMostOneCommits ==
  \A a \in DOMAIN txn : \A b \in DOMAIN txn \ {a} :
    (Overlapped(a, b) /\ txn[a].order = txn[b].order /\ Finished(a) /\ Finished(b))
      => ~(txn[a].phase = "committed" /\ txn[b].phase = "committed")

\* C6 as claimed: a transactional handler whose write meets its first
\* conflict does not answer with an error; it is attempted again.
C6_FirstConflictRetried ==
  [][\A w \in DOMAIN txn :
       (txn[w].phase = "open" /\ txn[w].stale /\ txn[w].op \in Transactional)
         => txn'[w].phase # "aborted"]_vars

----------------------------------------------------------------------------
(* C7 *)

\* C7: updateOrderStatus applies a transition to a status other than failed
\* only when the order's paymentStatus is paid at the time of the request,
\* and never answers a request for failed with the payment error.
C7_PaymentGate ==
  /\ [](\A o \in DOMAIN orders, actor \in Actors, v \in BOOLEAN :
          UpdateOrderStatusCode(o, "failed", actor, v) # "PaymentRequired")
  /\ [][\A o \in DOMAIN orders : orders'[o] # orders[o] =>
          \A status \in DeliveryStatuses \ {"failed"}, actor \in Actors :
            StatusStep(o, status, actor) => orders[o].paymentStatus = "paid"]_vars

\* An unpaid order has been marked failed by its venue through updateOrderStatus.
C7_Witness ==
  /\ orders["o1"].paymentStatus = "pending"
  /\ orders["o1"].deliveryStatus = "failed"
  /\ Len(orders["o1"].trackingUpdates) = 1
  /\ LastTracking("o1") = [status |-> "failed", updatedBy |-> "venue"]

----------------------------------------------------------------------------
(* C8 *)

\* Requests of authenticated actors with a well-formed status value.
StatusRequesters == StaffUsers \cup DriverIds

----------------------------------------------------------------------------
(* C9, C10 *)

\* The step is an accepted assignment of driver d to order o, by the
\* controller or by the model method.
AssignStep(o, d) ==
  \/ \E actor \in StaffUsers : AssignDriverToOrder(o, d, actor)
  \/ AssignDriver(o, d)

\* C9 as claimed: an assignment sets deliveryDriver, moves the order to
\* dispatched, appends a tracking entry and makes the driver unavailable in
\* one step, and no order is ever ready with a driver set.
C9_AssignmentAllOrNothing ==
  [][\A o \in DOMAIN orders :
       /\ ~(orders'[o].deliveryStatus = "ready" /\ orders'[o].deliveryDriver # NoDriver)
       /\ orders'[o] # orders[o] =>
            \A d \in DriverIds :
              AssignStep(o, d)
                => /\ orders'[o].deliveryDriver = d
                   /\ orders'[o].deliveryStatus = "dispatched"
                   /\ Len(orders'[o].trackingUpdates) = Len(orders[o].trackingUpdates) + 1
                   /\ ~drivers'[d].isAvailable]_vars

\* C10 as claimed: an assignment is accepted only for a ready order and an
\* available, on-duty driver; for any other deliveryStatus it is answered
\* OrderNotReady, and DriverUnavailable for a ready order whose driver is
\* unavailable or off duty.
C10_AssignOnlyReadyAndAvailable ==
  [][\A o \in DOMAIN orders, d \in DriverIds :
       /\ orders[o].deliveryStatus # "ready"
            => /\ AssignDriverCode(o, d) = "OrderNotReady"
               /\ \A actor \in StaffUsers :
                    OwningStaff(actor, o)
                      => AssignDriverToOrderCode(o, d, actor) = "OrderNotReady"
       /\ (orders[o].deliveryStatus = "ready"
           /\ ~(drivers[d].isAvailable /\ drivers[d].isOnDuty))
            => /\ AssignDriverCode(o, d) = "DriverUnavailable"
               /\ \A actor \in StaffUsers :
                    OwningStaff(actor, o)
                      => AssignDriverToOrderCode(o, d, actor) = "DriverUnavailable"
       /\ (orders'[o] # orders[o] /\ AssignStep(o, d))
            => /\ orders[o].deliveryStatus = "ready"
               /\ drivers[d].isAvailable /\ drivers[d].isOnDuty]_vars

----------------------------------------------------------------------------
(* C11, C12, C13 *)

\* C11 as claimed: an order that is dispatched, in transit or delivered has a
\* driver, and an order that is pending, preparing or ready has none (a failed
\* order may have either, according to whether it had been dispatched).
C11_DriverIffDispatched ==
  \A o \in DOMAIN orders :
    /\ orders[o].deliveryStatus \in {"dispatched", "in_transit", "delivered"}
         => orders[o].deliveryDriver # NoDriver
    /\ orders[o].deliveryStatus \in {"pending", "preparing", "ready"}
         => orders[o].deliveryDriver = NoDriver

\* C12 as claimed: whenever an order with an assigned driver moves to failed,
\* that driver is available afterwards.
C12_FailedFreesDriver ==
  [][\A o \in DOMAIN orders :
       (/\ orders[o].deliveryDriver \in DOMAIN drivers
        /\ orders[o].deliveryStatus # "failed"
        /\ orders'[o].deliveryStatus = "failed")
         => drivers'[orders[o].deliveryDriver].isAvailable]_vars

\* C13 as claimed: trackingUpdates only grows at its end, and every change of
\* deliveryStatus appends exactly one entry, whose status is the new status.
C13_EveryChangeTracked ==
  [][\A o \in DOMAIN orders :
       LET old == orders[o].trackingUpdates
           new == orders'[o].trackingUpdates IN
       /\ Len(new) >= Len(old)
       /\ SubSeq(new, 1, Len(old)) = old
       /\ orders'[o].deliveryStatus # orders[o].deliveryStatus
            => /\ Len(new) = Len(old) + 1
               /\ new[Len(new)].status = orders'[o].deliveryStatus]_vars

----------------------------------------------------------------------------
(* C14 *)

\* The orders now assigned to driver d that have reached delivered
\* (actualDeliveryTime is stamped on reaching delivered and never cleared)
DeliveredBy(d) ==
  {o \in DOMAIN orders : orders[o].deliveryDriver = d /\ orders[o].actualDeliveryTime}

\* The step half of C14: a transition to delivered stamps actualDeliveryTime,
\* makes the assigned driver available and adds one to completedDeliveries.
C14_DeliveredStep ==
  [][\A o \in DOMAIN orders :
       (orders[o].deliveryStatus # "delivered" /\ orders'[o].deliveryStatus = "delivered")
         => /\ orders'[o].actualDeliveryTime
            /\ LET d == orders[o].deliveryDriver IN
               d \in DOMAIN drivers
                 => /\ drivers'[d].isAvailable
                    /\ drivers'[d].completedDeliveries
                         = drivers[d].completedDeliveries + 1]_vars

\* C14 as claimed: in every reachable state a driver's completedDeliveries is
\* the number of orders assigned to that driver that have reached delivered.
C14_CompletedCountsDelivered ==
  \A d \in DOMAIN drivers :
    drivers[d].completedDeliveries = Cardinality(DeliveredBy(d))

----------------------------------------------------------------------------
(* C15 *)

\* C15 as claimed: the cancelOrder request of the order's own customer is
\* accepted exactly when the order is cancellable, and is answered
\* NotCancellable otherwise.
C15_CancelIffCancellable ==
  \A o \in DOMAIN orders :
    CancelOrderCheck(o, OrderCustomer[o])
      = IF isCancellable(o) THEN "OK" ELSE "NotCancellable"

----------------------------------------------------------------------------
(* C16, C17 *)

\* The property of C16, which no reachable state puts to the test: a rating
\* field that has been set keeps its value.
C16_RatingsImmutable ==
  [][\A o \in DOMAIN orders :
       /\ orders[o].rating # 0 => orders'[o].rating = orders[o].rating
       /\ orders[o].driverRating # 0 => orders'[o].driverRating = orders[o].driverRating
       /\ orders[o].venueRating # 0 => orders'[o].venueRating = orders[o].venueRating]_vars

\* No order ever carries a rating: submitOrderRating is the only writer of
\* the rating fields and it answers every request with an error.
C16_NeverRated ==
  \A o \in DOMAIN orders :
    orders[o].rating = 0 /\ orders[o].driverRating = 0 /\ orders[o].venueRating = 0

\* C17 as claimed: a rating request with ratings in range is answered
\* NotDelivered for an order that is not delivered and AlreadyRated for a
\* delivered order that has a rating, and is accepted otherwise.
C17_RejectedUnlessDeliveredUnrated ==
  \A o \in DOMAIN orders, body \in RatingBodies :
    RatingInRange(body.rating)
      => SubmitOrderRatingCheck(o, NoUser, body)
           = IF orders[o].deliveryStatus # "delivered" THEN "NotDelivered"
             ELSE IF orders[o].rating # 0 THEN "AlreadyRated"
             ELSE "OK"

----------------------------------------------------------------------------
(* C18, C19, C20 *)

\* The distance calculateDistance finds between a venue and a dropoff
DropoffDistance(v, lat) == calculateDistance(venues[v].latitude, lat)

\* C18: a request that passes the checks made before the radius check is
\* answered OutOfDeliveryRange when the computed distance exceeds the venue's
\* deliveryRadius, and no request at such a distance is accepted; a request at
\* a distance up to the radius, the radius included, is never answered
\* OutOfDeliveryRange.  Every stored order lies within its venue's radius and
\* totalOrders counts the venue's stored orders.
C18_OutOfRangeRejected ==
  /\ \A user \in Users, body \in CreateBodies :
       (body.venue \in DOMAIN venues /\ Len(body.coordinates) = 1) =>
         LET distance == DropoffDistance(body.venue, body.coordinates[1])
             code == CreateFoodDeliveryOrderCode(user, body) IN
         IF distance > venues[body.venue].deliveryRadius
         THEN /\ code # "OK"
              /\ CreateFoodDeliveryOrderRequestCheck(user, body) = "OK"
                   => code = "OutOfDeliveryRange"
         ELSE code # "OutOfDeliveryRange"
  /\ \A o \in DOMAIN orders :
       DropoffDistance(OrderVenue[o], orders[o].coordinates)
         <= venues[OrderVenue[o]].deliveryRadius
  /\ \A v \in DOMAIN venues :
       venues[v].totalOrders = Cardinality({o \in DOMAIN orders : OrderVenue[o] = v})

\* An order at exactly the radius has been stored, and a request from 10.01
\* km is being answered OutOfDeliveryRange.
C18_Witness ==
  /\ \E o \in DOMAIN orders :
       DropoffDistance(OrderVenue[o], orders[o].coordinates)
         = venues[OrderVenue[o]].deliveryRadius
  /\ \E user \in Users, body \in CreateBodies :
       /\ body.coordinates = <<90>>
       /\ CreateFoodDeliveryOrderCode(user, body) = "OutOfDeliveryRange"

C20_TotalIsSum ==
  \A o \in DOMAIN orders :
    orders[o].totalAmount
      = orders[o].subtotal + orders[o].deliveryFee.total + orders[o].tax
          + orders[o].tip - orders[o].discount

----------------------------------------------------------------------------
(* C21, C22 *)

\* C21: the total of every stored fee breakdown equals the sum of its six
\* named components base, distanceFee, surgeFee, smallOrderFee, serviceFee and
\* handlingFee.
C21_TotalIsSumOfComponents ==
  \A o \in DOMAIN orders :
    LET fee == orders[o].deliveryFee IN
    fee.total = fee.base + fee.distanceFee + fee.surgeFee + fee.smallOrderFee
                  + fee.serviceFee + fee.handlingFee

\* The rate of the first tier that contains the distance, 0 when none does
RECURSIVE ratePerKm(_, _)
ratePerKm(distanceRates, distanceKm) ==
  IF distanceRates = <<>> THEN 0
  ELSE IF Head(distanceRates).minDistance <= distanceKm
            /\ distanceKm <= Head(distanceRates).maxDistance
    THEN Head(distanceRates).rate
  ELSE ratePerKm(Tail(distanceRates), distanceKm)

\* The multiplier, in tenths, of the first surge window that contains the
\* clock time, 1 when none does
RECURSIVE surgeOf(_, _)
surgeOf(surgeWindows, clockTime) ==
  IF surgeWindows = <<>> THEN 10
  ELSE IF Head(surgeWindows).startTime <= clockTime
            /\ clockTime <= Head(surgeWindows).endTime
    THEN Head(surgeWindows).multiplier
  ELSE surgeOf(Tail(surgeWindows), clockTime)

\* Step 1 of the specified algorithm (section 4.1) after step 5's surge, at
\* full precision, in millionths of the currency unit
AlgorithmDistanceFeeSurged(config, distanceKm, clockTime) ==
  ratePerKm(config.distanceRates, distanceKm) * distanceKm
    * surgeOf(config.surgeMultipliers, clockTime)

\* Step 3, in thousandths
AlgorithmSmallOrderFee(config, subtotal) ==
  IF subtotal < config.smallOrderThreshold THEN config.smallOrderFee ELSE 0

\* Step 6 at full precision, in millionths of the currency unit
AlgorithmTotal(config, distanceKm, clockTime, subtotal) ==
  config.base * surgeOf(config.surgeMultipliers, clockTime) * 100
    + AlgorithmDistanceFeeSurged(config, distanceKm, clockTime)
    + AlgorithmSmallOrderFee(config, subtotal) * 1000
    + subtotal * config.serviceFeePercentage * 10
    + config.handlingFee * 1000

\* C22: the breakdown createFoodDeliveryOrder stores is the result of the
\* specified algorithm for the venue's configuration, the computed distance,
\* the clock time and the subtotal: the surged distance fee of the first
\* matching tier (0 when no tier matches), the small order fee only below the
\* threshold, the service fee as the percentage of the subtotal and the total
\* of step 6, each rounded to two decimals at the output.
C22_FeeFollowsAlgorithm ==
  [][orders' # orders =>
       \A body \in FeeBodies, currentTime \in FeeTimes :
         CreateFoodDeliveryOrder("c1", body, "Main Street", currentTime) =>
           \A o \in DOMAIN orders' \ DOMAIN orders :
             LET config == venues[body.venue].deliveryFee
                 distanceKm == DropoffDistance(body.venue, body.coordinates[1])
                 subtotal == ItemsSubtotal(body.items)
                 fee == orders'[o].deliveryFee
             IN /\ fee.distanceFee
                     = ToFixed2(AlgorithmDistanceFeeSurged(config, distanceKm, currentTime),
                                1000)
                /\ fee.smallOrderFee = AlgorithmSmallOrderFee(config, subtotal)
                /\ fee.serviceFee = ToFixed2(subtotal * config.serviceFeePercentage, 100)
                /\ fee.total
                     = ToFixed2(AlgorithmTotal(config, distanceKm, currentTime, subtotal),
                                1000)]_vars

\* Scenario 1 has been computed: 3 km and a subtotal of 10 under the scenario's
\* configuration give a total of 12.
C22_Witness ==
  \E o \in DOMAIN orders :
    /\ venues[OrderVenue[o]].deliveryFee = ScenarioConfig
    /\ DropoffDistance(OrderVenue[o], orders[o].coordinates) = 300
    /\ orders[o].subtotal = 10000
    /\ orders[o].deliveryFee.distanceFee = 3000
    /\ orders[o].deliveryFee.smallOrderFee = 2000
    /\ orders[o].deliveryFee.serviceFee = 1000
    /\ orders[o].deliveryFee.total = 12000

----------------------------------------------------------------------------
(* C24, C26, C29 *)

\* C24: whenever an order is ready and paid and has an assigned driver, that
\* driver's updateOrderStatus(dispatched) passes every check of the handler,
\* is accepted when the driver document passes the order's validator, and
\* moves the order to dispatched with a tracking entry written by the driver.
C24_AssignedDriverMayDispatch ==
  \A o \in DOMAIN orders, d \in DriverIds :
    (/\ orders[o].deliveryStatus = "ready"
     /\ orders[o].paymentStatus = "paid"
     /\ orders[o].deliveryDriver = d) =>
      /\ UpdateOrderStatusCheck(o, "dispatched", d) = "OK"
      /\ UpdateOrderStatusCode(o, "dispatched", d, FALSE) = "OK"
      /\ DriverValidator(d) => UpdateOrderStatusCode(o, "dispatched", d, TRUE) = "OK"
      /\ UpdateOrderStatusOrder(o, "dispatched", d).deliveryStatus = "dispatched"
      /\ UpdateOrderStatusOrder(o, "dispatched", d).deliveryDriver = d

\* A driver has moved a paid order from ready to dispatched: the order is
\* dispatched and its last tracking entry is the driver's.  (The order had
\* been given its driver by assignDriverToOrder and was reset to preparing by
\* a second payment_intent.succeeded event before the venue marked it ready
\* again.)
C24_Witness ==
  \E o \in DOMAIN orders :
    /\ orders[o].deliveryStatus = "dispatched"
    /\ orders[o].paymentStatus = "paid"
    /\ orders[o].deliveryDriver \in DriverIds
    /\ orders[o].trackingUpdates # <<>>
    /\ LastTracking(o) = [status |-> "dispatched", updatedBy |-> "driver"]

\* C26: a step made by an updateOrderStatus request that the handler rejects
\* changes neither the order (deliveryStatus, trackingUpdates,
\* actualDeliveryTime) nor any driver (currentLocation, isAvailable,
\* completedDeliveries), whatever location the request carries.
C26_RejectedChangesNothing ==
  [][(orders' # orders \/ drivers' # drivers) =>
       \A o \in RequestIds, status \in DeliveryStatuses, actor \in Actors,
          v \in BOOLEAN, location \in Locations :
         UpdateOrderStatusCode(o, status, actor, v) # "OK" =>
           ~UpdateOrderStatus(o, status, actor, v, location)]_vars

\* A request of the assigned driver that carries a new location passes every
\* check, so that the location write is issued, and is rejected afterwards.
C26_Witness ==
  \E o \in DOMAIN orders, d \in DriverIds, status \in validStatuses :
    /\ UpdateOrderStatusCheck(o, status, d) = "OK"
    /\ UpdateOrderStatusCode(o, status, d, TRUE) = "Failed"
    /\ UpdateOrderStatusLocation(d, <<45>>) # drivers

\* C29: a location update sent by the driver assigned to the order, with
\* well-formed coordinates that the geocoder resolves, is accepted.
C29_AssignedDriverAccepted ==
  \A o \in DOMAIN orders, d \in DriverIds :
    orders[o].deliveryDriver = d =>
      UpdateDeliveryLocationCode(o, DriverRouteUser(d), <<45>>, "Main Street", FALSE)
        = "OK"

----------------------------------------------------------------------------
(* C30 *)

\* C30: for the status of every stored order and every requested status, the
\* controller's table, the table of updateStatus in foodDelivery.models.js and
\* the table of its copy in admin.models.js accept the same transitions.
C30_TablesAgree ==
  \A o \in DOMAIN orders, status \in DeliveryStatuses :
    LET from == orders[o].deliveryStatus IN
    /\ status \in validTransitions(from) <=> status \in ModelValidTransitions(from)
    /\ status \in validTransitions(from) <=> status \in AdminValidTransitions(from)

----------------------------------------------------------------------------
(* C23 *)

\* The drivers a query may return: available, on duty, active, within
\* maxDistance of the point, and not busy with a dispatched or in_transit
\* order.
Eligible(d, point, maxDistance) ==
  /\ drivers[d].isAvailable
  /\ drivers[d].isOnDuty
  /\ drivers[d].status = "active"
  /\ GeoDistance(drivers[d].currentLocation, point) <= maxDistance
  /\ \A o \in DOMAIN orders : orders[o].deliveryDriver = d => ~Busy(o)

NearestFirst(result, point) ==
  \A i, j \in DOMAIN result :
    i < j => GeoDistance(drivers[result[i]].currentLocation, point)
               <= GeoDistance(drivers[result[j]].currentLocation, point)

\* C23: the venue's getNearbyDrivers, findNearbyDrivers and the admin's
\* getNearbyDrivers return only available, on-duty, active drivers within the
\* maximum distance of the query point who are not busy with a dispatched or
\* in_transit order, nearest first.
C23_OnlyEligibleDriversReturned ==
  /\ \A o \in DOMAIN orders :
       /\ \A i \in DOMAIN GetNearbyDriversResult(o) :
            Eligible(GetNearbyDriversResult(o)[i], orders[o].coordinates, VenueMaxDistance)
       /\ NearestFirst(GetNearbyDriversResult(o), orders[o].coordinates)
       /\ \A maxDistance \in MaxDistances :
            /\ \A i \in DOMAIN FindNearbyDriversResult(o, maxDistance) :
                 Eligible(FindNearbyDriversResult(o, maxDistance)[i],
                          orders[o].coordinates, maxDistance)
            /\ NearestFirst(FindNearbyDriversResult(o, maxDistance), orders[o].coordinates)
  /\ \A latitude \in DriverLatitudes \ {<<>>}, maxDistance \in MaxDistances :
       /\ \A i \in DOMAIN AdminGetNearbyDriversResult(latitude, maxDistance) :
            Eligible(AdminGetNearbyDriversResult(latitude, maxDistance)[i],
                     latitude[1], maxDistance)
       /\ NearestFirst(AdminGetNearbyDriversResult(latitude, maxDistance), latitude[1])

----------------------------------------------------------------------------
(* C25, C27, C28 *)

\* C25: an order whose deliveryStatus is preparing, ready, dispatched or
\* in_transit has paymentStatus paid.
C25_InProgressIsPaid ==
  \A o \in DOMAIN orders :
    orders[o].deliveryStatus \in {"preparing", "ready", "dispatched", "in_transit"}
      => orders[o].paymentStatus = "paid"

\* A step that is an accepted refund of payment p: its refunds list grows.
RefundStep(p) ==
  /\ p \in DOMAIN payments
  /\ Len(payments'[p].refunds) > Len(payments[p].refunds)

\* C27: a refund is accepted only for a payment that is paid or succeeded and
\* for an amount not above the payment's; it sets the payment to refunded (the
\* whole amount) or partially_refunded (less) and the order to failed; the sum
\* of the accepted refunds of a payment never exceeds its amount.
C27_RefundsWithinPayment ==
  [][\A p \in DOMAIN payments :
       RefundStep(p) =>
         /\ payments[p].paymentStatus \in {"paid", "succeeded"}
         /\ payments'[p].refundAmount <= payments[p].amount
         /\ payments'[p].paymentStatus =
              IF payments'[p].refundAmount = payments[p].amount
              THEN "refunded" ELSE "partially_refunded"
         /\ orders'[p].deliveryStatus = "failed"
         /\ SumRefunds(payments'[p].refunds) <= payments'[p].amount]_vars

\* C28: a step of createFoodDeliveryPayment that creates a payment record or
\* changes the order was requested by the order's customer with an amount
\* within 0.01 of the order's totalAmount, the gateway call and the insert
\* having succeeded; any other request of the handler leaves the payments and
\* the order's paymentMethod and paymentStatus as they were.
C28_PaymentOnlyForOwnMatchingOrder ==
  [][(payments' # payments \/ orders' # orders) =>
       \A o \in RequestIds, user \in CustomerUsers, paymentMethod \in RequestedMethods,
          amount \in PaymentAmounts, transactionId \in RequestedTransactionIds,
          gateway \in {"throws", "requires_payment_method"}, inserted \in BOOLEAN :
         CreateFoodDeliveryPayment(o, user, paymentMethod, amount, transactionId,
                                   gateway, inserted)
           => /\ Exists(o)
              /\ OrderCustomer[o] = user
              /\ AmountDifference(amount, orders[o].totalAmount) <= 10
              /\ paymentMethod = "stripe" => gateway # "throws"
              /\ inserted
              /\ DOMAIN payments' = DOMAIN payments \cup {o}
              /\ payments'[o].user = user /\ payments'[o].amount = amount]_vars

\* A record the customer created with paypal for one cent more than the
\* order's total; the order carries the method and awaits the payment.
C28_Witness ==
  \E o \in DOMAIN payments :
    /\ payments[o].user = OrderCustomer[o]
    /\ payments[o].paymentMethod = "paypal"
    /\ payments[o].amount = orders[o].totalAmount + 10
    /\ payments[o].paymentStatus = "pending"
    /\ orders[o].paymentMethod = "paypal"
    /\ orders[o].paymentStatus = "pending"

============================================================================
